---------------------------- MODULE Spec2Model ----------------------------
(***************************************************************************)
(* Verification model of the geometry engine of PageXML.cc:                *)
(*   - point-list parsing and formatting (stringToPoints, pointsToString), *)
(*   - bounding boxes (pointsLimits, pointsBBox, isBBox),                  *)
(*   - polystripes (intersection, withinSegment, setPolystripe,            *)
(*     isPolystripe),                                                      *)
(*   - text line continuation and reading order                            *)
(*     (testTextLineContinuation, getTextLinesReadingOrder).               *)
(*                                                                         *)
(* Numbers.  Every float/double of the code is an exact rational <<n, d>>  *)
(* in lowest terms with d > 0.  The inputs are drawn from values that      *)
(* binary floating point represents exactly (small integers and halves)    *)
(* and from axis-aligned geometry, where every norm is rational, so the    *)
(* arithmetic of the model is the arithmetic of the code.                  *)
(***************************************************************************)
EXTENDS Integers, Sequences, FiniteSets, TLC

VARIABLES
    \* ---- point-list parsing (stringToPoints / pointsToString) ----
    sp_pc,        \* "scan" | "done" | "fmt" | "rescan" | "end"
    sp_in,        \* the input: [lead, toks, seps, trail]
    sp_str,       \* the string being parsed (sequence of characters)
    sp_p,         \* index of the character p points to, 0 for spoints-1
    sp_points,    \* vector points of the running stringToPoints call
    sp_first,     \* result of the first stringToPoints call
    sp_rounded,   \* the rounded argument of pointsToString
    sp_out,       \* result of pointsToString on sp_first
    \* ---- bounding boxes (pointsBBox / isBBox) ----
    bb_pc,        \* "in" | "bbox" | "end"
    bb_points,    \* the vector points
    bb_bbox,      \* the vector bbox written by pointsBBox
    bb_is,        \* the value returned by isBBox
    \* ---- polystripes (setPolystripe / isPolystripe) on one TextLine ----
    st_pc,        \* "in" | "set" | "failed" | "end"
    st_node,      \* the node: [name, has_baseline, baseline, has_coords, coords]
    st_args,      \* [height, offset, offset_check] of setPolystripe
    st_res,       \* what isPolystripe returned: [ok, height, offset]
    \* ---- reading order (testTextLineContinuation / getTextLinesReadingOrder) ----
    ro_pc,        \* "off" | "call" | "groups" | "phaseB" | "done" | "failed"
    ro_lines,     \* the argument lines, as numbers of LineCatalog
    ro_cfg,       \* the thresholds [ang, iou, pro]
    ro_stack,     \* the running testTextLineContinuation calls, innermost last
    ro_num_joins,          \* what the outermost call returned
    ro_line_groups,        \* its output _line_group_order
    ro_join_group_score,   \* its output _line_group_score
    ro_reading_order,      \* what getTextLinesReadingOrder returned
    \* ---- overlap scoring and copyTextLinesAssignByOverlap ----
    ov_pc,        \* "off" | "ready" | "page" | "line" | "returned" | "thrown" | "crash"
    ov_in,        \* the call: [op, ...] with its arguments and the two documents
    ov_to,        \* the Page elements of the destination document
    ov_npage,     \* loop variable npage, counted from 1
    ov_n,         \* loop variable n over linesFrom, counted from 1
    ov_pageregadded,   \* the local pageregadded of the current page
    ov_linesCopied,    \* the local linesCopied
    ov_ret,       \* the value returned, -1 while there is none
    ov_err,       \* the last message given to throw_runtime_error, "" for none
    ov_iou,       \* the value computeIoU returned
    \* ---- page images (loadImage / getPageImage / crop) ----
    cr_pc,        \* "off" | "run"
    cr_doc,       \* the document: its pages, and how throw_runtime_error is built
    cr_pagesImage,     \* the member pagesImage, one entry per page
    cr_loads,     \* per page, what each call of loadImage for it found, in order
    cr_calls,     \* number of calls made so far
    cr_last,      \* the last call and its outcome
    \* ---- setCoords / setBaseline on one node ----
    gm_pc,        \* "off" | "ready" | "end"
    gm_node,      \* the node: [name, children]
    gm_call,      \* the call made: [fn, before, points, conf, fail, nothrow]
    gm_res,       \* its outcome: "" | "returned" | "thrown" | "null"
    \* ---- angleDiff / IoU_1d on given arguments ----
    fn_pc,        \* "off" | "args" | "end"
    fn_call,      \* the call: [fn, args]
    fn_ret,       \* the value returned
    \* ---- addTextRegion / addTextLine on one document ----
    id_pc,        \* "off" | "run"
    id_elems,     \* the elements of the document: [name, id, parent], in the order added
    id_calls,     \* number of calls made so far
    id_last,      \* the last call and its outcome
    \* ---- addPage / getPageImage and the members pagesImage* ----
    pg_pc,        \* "off" | "run"
    pg_pages,     \* the Page elements in document order: [page, imageFilename]
    pg_pagesImage,          \* the member pagesImage
    pg_pagesImageFilename,  \* the member pagesImageFilename
    pg_pagesImageBase,      \* the member pagesImageBase
    pg_calls,     \* number of calls made so far
    pg_last,      \* the last call and its outcome
    \* ---- processStart / processEnd / write ----
    pr_pc,        \* "off" | "run"
    pr_metadata,  \* the children of Metadata, in document order
    pr_process_running,   \* the member process_running: a position in pr_metadata, 0 for NULL
    pr_calls,     \* number of calls made so far
    pr_last       \* the last call and its outcome

spVars == <<sp_pc, sp_in, sp_str, sp_p, sp_points, sp_first, sp_rounded, sp_out>>
bbVars == <<bb_pc, bb_points, bb_bbox, bb_is>>
stVars == <<st_pc, st_node, st_args, st_res>>

roVars == <<ro_pc, ro_lines, ro_cfg, ro_stack, ro_num_joins, ro_line_groups,
           ro_join_group_score, ro_reading_order>>

ovVars == <<ov_pc, ov_in, ov_to, ov_npage, ov_n, ov_pageregadded, ov_linesCopied,
           ov_ret, ov_err, ov_iou>>

crVars == <<cr_pc, cr_doc, cr_pagesImage, cr_loads, cr_calls, cr_last>>

gmVars == <<gm_pc, gm_node, gm_call, gm_res>>

fnVars == <<fn_pc, fn_call, fn_ret>>

idVars == <<id_pc, id_elems, id_calls, id_last>>

pgVars == <<pg_pc, pg_pages, pg_pagesImage, pg_pagesImageFilename, pg_pagesImageBase,
           pg_calls, pg_last>>

prVars == <<pr_pc, pr_metadata, pr_process_running, pr_calls, pr_last>>

vars == <<spVars, bbVars, stVars, roVars, ovVars, crVars, gmVars, fnVars, idVars, pgVars,
          prVars>>

None == "None"

\* v bound once to the parameter of Op: the local variables of the code
With(v, Op(_)) == Op(v)

-----------------------------------------------------------------------------
(* Exact rational arithmetic standing for the code's double arithmetic.    *)

Abs(i) == IF i < 0 THEN -i ELSE i

Sgn(i) == IF i < 0 THEN -1 ELSE IF i > 0 THEN 1 ELSE 0

RECURSIVE Gcd(_, _)
Gcd(a, b) == IF b = 0 THEN a ELSE Gcd(b, a % b)

\* n/d in lowest terms with a positive denominator (d # 0)
Rat(n, d) ==
    LET g == Gcd(Abs(n), Abs(d))
        s == IF d < 0 THEN -1 ELSE 1
    IN  <<(s * n) \div g, (s * d) \div g>>

RInt(i) == <<i, 1>>
RZero == <<0, 1>>
ROne == <<1, 1>>

\* sums over the least common denominator, products cancelled crosswise
RAdd(a, b) ==
    LET g == Gcd(a[2], b[2])
    IN  Rat(a[1] * (b[2] \div g) + b[1] * (a[2] \div g), a[2] * (b[2] \div g))
RNeg(a) == <<-a[1], a[2]>>
RSub(a, b) == RAdd(a, RNeg(b))
RMul(a, b) ==
    LET g1 == Gcd(Abs(a[1]), b[2])
        g2 == Gcd(Abs(b[1]), a[2])
    IN  IF a[1] = 0 \/ b[1] = 0 THEN RZero
        ELSE <<(a[1] \div g1) * (b[1] \div g2), (a[2] \div g2) * (b[2] \div g1)>>
\* a / b for b # 0
RDiv(a, b) == RMul(a, <<Sgn(b[1]) * b[2], Abs(b[1])>>)
RLt(a, b) == a[1] * b[2] < b[1] * a[2]
RLe(a, b) == a[1] * b[2] <= b[1] * a[2]
RGt(a, b) == RLt(b, a)
RGe(a, b) == RLe(b, a)
RAbs(a) == <<Abs(a[1]), a[2]>>
RMax(a, b) == IF RLt(a, b) THEN b ELSE a
RMin(a, b) == IF RLt(b, a) THEN b ELSE a

RECURSIVE Pow10(_)
Pow10(k) == IF k = 0 THEN 1 ELSE 10 * Pow10(k - 1)

-----------------------------------------------------------------------------
(* Characters and strings.  A C string is a sequence of one-character      *)
(* strings; reading at or past its end reads the terminating NUL.          *)

Digits == <<"0", "1", "2", "3", "4", "5", "6", "7", "8", "9">>

DigitVal(c) == (CHOOSE k \in 1..10 : Digits[k] = c) - 1

NUL == "NUL"

CharAt(s, i) == IF i >= 1 /\ i <= Len(s) THEN s[i] ELSE NUL

RECURSIVE SkipSpaces(_, _)
\* isspace() holds of the space alone among the characters of the model
SkipSpaces(s, i) == IF CharAt(s, i) = " " THEN SkipSpaces(s, i + 1) ELSE i

\* the run of digits starting at i: <<value, index after it, digits read>>
RECURSIVE ReadDigits(_, _, _, _)
ReadDigits(s, i, acc, cnt) ==
    IF \E k \in 1..10 : Digits[k] = CharAt(s, i)
    THEN ReadDigits(s, i + 1, acc * 10 + DigitVal(CharAt(s, i)), cnt + 1)
    ELSE <<acc, i, cnt>>

\* double -> float of cv::Point2f(x,y): exact on the values of the model,
\* integers beyond 24 bits lose their low bits (round to nearest even)
RECURSIVE FloatUlp(_, _)
FloatUlp(a, u) == IF a < 16777216 * u THEN u ELSE FloatUlp(a, 2 * u)

ToFloat(r) ==
    IF r[2] # 1 \/ Abs(r[1]) < 16777216 THEN r
    ELSE LET a == Abs(r[1])
             u == FloatUlp(a, 1)
             q == a \div u
             rem == a % u
             up == (2 * rem > u) \/ (2 * rem = u /\ q % 2 = 1)
         IN  RInt(Sgn(r[1]) * (IF up THEN q + 1 ELSE q) * u)

(* One %lf conversion of sscanf starting at index i: skips white space,    *)
(* then an optional sign, digits with an optional fraction (at least one   *)
(* digit), then an optional exponent.  [ok, val, next].                    *)
ScanDouble(s, i) ==
    With(SkipSpaces(s, i), LAMBDA j0 :
    With(IF CharAt(s, j0) \in {"-", "+"} THEN j0 + 1 ELSE j0, LAMBDA j1 :
    With(ReadDigits(s, j1, 0, 0), LAMBDA ip :
    With(IF CharAt(s, ip[2]) = "." THEN ReadDigits(s, ip[2] + 1, 0, 0)
         ELSE <<0, ip[2], 0>>, LAMBDA fp :
    With(ReadDigits(s, IF CharAt(s, fp[2] + 1) \in {"-", "+"}
                       THEN fp[2] + 2 ELSE fp[2] + 1, 0, 0), LAMBDA ep :
    With(RAdd(RInt(ip[1]), Rat(fp[1], Pow10(fp[3]))), LAMBDA mant :
    With(CharAt(s, fp[2]) \in {"e", "E"}, LAMBDA hasExp :
    With(IF ~hasExp THEN mant
         ELSE IF CharAt(s, fp[2] + 1) = "-" THEN RDiv(mant, RInt(Pow10(ep[1])))
         ELSE RMul(mant, RInt(Pow10(ep[1]))), LAMBDA val0 :
        IF ip[3] + fp[3] = 0
        THEN [ok |-> FALSE, val |-> RZero, next |-> j1]
        ELSE [ok |-> TRUE,
              val |-> IF CharAt(s, j0) = "-" THEN RNeg(val0) ELSE val0,
              next |-> IF hasExp THEN ep[2] ELSE fp[2]]))))))))

(* sscanf( p, "%lf,%lf", &x, &y ): the number of conversions made, and the *)
(* two values.                                                             *)
Sscanf2(s, i) ==
    With(ScanDouble(s, i), LAMBDA a :
        IF ~a.ok THEN [n |-> 0, x |-> RZero, y |-> RZero]
        ELSE IF CharAt(s, a.next) # "," THEN [n |-> 1, x |-> a.val, y |-> RZero]
        ELSE With(ScanDouble(s, a.next + 1), LAMBDA b :
            IF ~b.ok THEN [n |-> 1, x |-> a.val, y |-> RZero]
            ELSE [n |-> 2, x |-> a.val, y |-> b.val]))

\* strchr(p,' '): index of the first space at or after i, 0 for NULL
RECURSIVE Strchr(_, _)
Strchr(s, i) ==
    IF i > Len(s) THEN 0
    ELSE IF s[i] = " " THEN i
    ELSE Strchr(s, i + 1)

(* PageXML::stringToPoints, one iteration of its while(true) loop from the *)
(* state (p, points): p++, sscanf, push_back, strchr.  p is the index p    *)
(* points to (0 for spoints-1); done tells that the loop was left.         *)
ScanIter(s, p, points) ==
    With(Sscanf2(s, p + 1), LAMBDA r :
    With(Strchr(s, p + 1), LAMBDA nxt :
    With(Append(points, <<ToFloat(r.x), ToFloat(r.y)>>), LAMBDA pushed :
        IF r.n # 2 THEN [points |-> points, p |-> p + 1, done |-> TRUE]
        ELSE IF nxt = 0 THEN [points |-> pushed, p |-> p + 1, done |-> TRUE]
        ELSE [points |-> pushed, p |-> nxt, done |-> FALSE])))

RECURSIVE ScanLoop(_, _, _)
ScanLoop(s, p, points) ==
    With(ScanIter(s, p, points), LAMBDA it :
        IF it.done THEN it.points ELSE ScanLoop(s, it.p, it.points))

stringToPoints(s) == ScanLoop(s, 0, <<>>)

-----------------------------------------------------------------------------
(* printf conversions of pointsToString.                                   *)

\* num/den (both > 0, or num = 0) rounded to the nearest integer, ties to even
RoundHalfEven(num, den) ==
    LET q == num \div den
        rem == num % den
    IN  IF 2 * rem > den \/ (2 * rem = den /\ q % 2 = 1) THEN q + 1 ELSE q

\* the decimal digits of a natural number, most significant first
RECURSIVE NatDigits(_)
NatDigits(k) ==
    IF k < 10 THEN <<Digits[k + 1]>>
    ELSE Append(NatDigits(k \div 10), Digits[(k % 10) + 1])

RECURSIVE StripZeros(_)
StripZeros(ds) ==
    IF Len(ds) > 1 /\ ds[Len(ds)] = "0" THEN StripZeros(SubSeq(ds, 1, Len(ds) - 1))
    ELSE ds

RECURSIVE Zeros(_)
Zeros(k) == IF k <= 0 THEN <<>> ELSE <<"0">> \o Zeros(k - 1)

\* floor(log10(n/d)) for n/d > 0, searched upwards or downwards from x
RECURSIVE Log10Up(_, _, _)
Log10Up(n, d, x) == IF n < d * Pow10(x + 1) THEN x ELSE Log10Up(n, d, x + 1)

RECURSIVE Log10Down(_, _, _)
Log10Down(n, d, x) == IF n * Pow10(-x) >= d THEN x ELSE Log10Down(n, d, x - 1)

\* precision of %g
GPrecision == 6

\* n/d times 10^k as a fraction <<n', d'>>, cancelling as it goes
RECURSIVE ScaleUp(_, _, _)
ScaleUp(n, d, k) ==
    IF k = 0 THEN <<n, d>>
    ELSE LET g == Gcd(10, d) IN ScaleUp(n * (10 \div g), d \div g, k - 1)

(* "%g": GPrecision significant digits, trailing zeros removed, exponent   *)
(* style when the decimal exponent is < -4 or >= the precision.            *)
FormatG(r) ==
    With(Abs(r[1]), LAMBDA n :
    With(IF n = 0 THEN 0
         ELSE IF n >= r[2] THEN Log10Up(n, r[2], 0) ELSE Log10Down(n, r[2], -1),
         LAMBDA x0 :
    With(IF n = 0 THEN 0
         ELSE IF (GPrecision - 1) - x0 >= 0
         THEN With(ScaleUp(n, r[2], (GPrecision - 1) - x0),
                   LAMBDA up : RoundHalfEven(up[1], up[2]))
         ELSE RoundHalfEven(n, r[2] * Pow10(x0 - (GPrecision - 1))), LAMBDA m0 :
    With(IF m0 = Pow10(GPrecision) THEN x0 + 1 ELSE x0, LAMBDA x :
    With(NatDigits(IF m0 = Pow10(GPrecision) THEN Pow10(GPrecision - 1) ELSE m0),
         LAMBDA ds :
    With(StripZeros(ds), LAMBDA sig :
    With(IF r[1] < 0 THEN <<"-">> ELSE <<>>, LAMBDA sign :
    With(NatDigits(Abs(x)), LAMBDA ex :
        IF n = 0 THEN <<"0">>
        ELSE IF x < -4 \/ x >= GPrecision
        THEN sign \o <<sig[1]>>
                  \o (IF Len(sig) > 1 THEN <<".">> \o SubSeq(sig, 2, Len(sig)) ELSE <<>>)
                  \o <<"e", IF x < 0 THEN "-" ELSE "+">>
                  \o (IF Len(ex) < 2 THEN <<"0">> ELSE <<>>) \o ex
        ELSE IF x >= 0
        THEN sign \o SubSeq(ds, 1, x + 1)
                  \o (IF x + 1 >= Len(sig) THEN <<>>
                      ELSE <<".">> \o SubSeq(sig, x + 2, Len(sig)))
        ELSE sign \o <<"0", ".">> \o Zeros(-x - 1) \o sig))))))))

\* "%.0f": the nearest integer, ties to even
FormatF0(r) ==
    LET k == RoundHalfEven(Abs(r[1]), r[2])
    IN  (IF r[1] < 0 THEN <<"-">> ELSE <<>>) \o NatDigits(k)

(* PageXML::pointsToString( vector<cv::Point2f>, rounded )                 *)
RECURSIVE pointsToString(_, _)
pointsToString(points, rounded) ==
    IF points = <<>> THEN <<>>
    ELSE With(points[Len(points)], LAMBDA pt :
            pointsToString(SubSeq(points, 1, Len(points) - 1), rounded)
                \o (IF Len(points) = 1 THEN <<>> ELSE <<" ">>)
                \o (IF rounded THEN FormatF0(pt[1]) \o <<",">> \o FormatF0(pt[2])
                    ELSE FormatG(pt[1]) \o <<",">> \o FormatG(pt[2])))

-----------------------------------------------------------------------------
(* cv::Point2f arithmetic.  A point is <<x, y>> with rational coordinates. *)

Pt(x, y) == <<RInt(x), RInt(y)>>

PAdd(a, b) == <<RAdd(a[1], b[1]), RAdd(a[2], b[2])>>
PSub(a, b) == <<RSub(a[1], b[1]), RSub(a[2], b[2])>>
PScale(a, f) == <<RMul(a[1], f), RMul(a[2], f)>>
PDot(a, b) == RAdd(RMul(a[1], b[1]), RMul(a[2], b[2]))

\* floor of the square root of a natural number, by bisection on lo..hi
RECURSIVE ISqrtIn(_, _, _)
ISqrtIn(k, lo, hi) ==
    IF lo >= hi THEN lo
    ELSE LET mid == (lo + hi + 1) \div 2
         IN  IF mid * mid <= k THEN ISqrtIn(k, mid, hi) ELSE ISqrtIn(k, lo, mid - 1)

ISqrt(k) == ISqrtIn(k, 0, IF k < 46340 THEN k ELSE 46340)

\* decimal places kept of a square root that is not rational
SqrtScale == 100

(* sqrt of a rational >= 0: exact when the root is rational (every norm of *)
(* axis-aligned geometry is), else cut to 1/SqrtScale of the denominator.  *)
RSqrt(a) ==
    With(ISqrt(a[1] * a[2]), LAMBDA r :
        IF r * r = a[1] * a[2] THEN Rat(r, a[2])
        ELSE Rat(ISqrt(a[1] * a[2] * SqrtScale * SqrtScale), a[2] * SqrtScale))

\* cv::norm; the root of a square needs no search
Norm(v) ==
    IF v[2][1] = 0 THEN RAbs(v[1])
    ELSE IF v[1][1] = 0 THEN RAbs(v[2])
    ELSE RSqrt(PDot(v, v))

(* atan2(y,x) in units of pi, for the directions of the model: the four    *)
(* axis directions and the diagonals (atan2(+0,x<0) is +pi).               *)
Atan2(y, x) ==
    LET sy == Sgn(y[1])
        sx == Sgn(x[1])
        diag == RAbs(x) = RAbs(y)
    IN  CASE sy = 0 /\ sx >= 0 -> RZero
          [] sy = 0 /\ sx < 0 -> ROne
          [] sx = 0 -> Rat(sy, 2)
          [] diag /\ sx > 0 -> Rat(sy, 4)
          [] diag /\ sx < 0 -> Rat(3 * sy, 4)

\* M_PI in the unit of the angles
MPI == ROne

\* static angleDiff (PageXML.cc)
angleDiff(a1, a2) ==
    With(RSub(a1, a2), LAMBDA a :
        IF RGt(a, MPI) THEN RSub(a, RMul(RInt(2), MPI))
        ELSE IF RLt(a, RNeg(MPI)) THEN RAdd(a, RMul(RInt(2), MPI))
        ELSE a)

\* PageXML::intersection: [ok, pt]; ok = FALSE leaves _ipoint as it was
intersection(l1p1, l1p2, l2p1, l2p2, ipoint) ==
    With(PSub(l2p1, l1p1), LAMBDA x :
    With(PSub(l1p2, l1p1), LAMBDA direct1 :
    With(PSub(l2p2, l2p1), LAMBDA direct2 :
    With(RSub(RMul(direct1[1], direct2[2]), RMul(direct1[2], direct2[1])),
         LAMBDA cross :
        \* fabs(cross) < 1e-8, without overflowing on |n| * 10^8
        IF Abs(cross[1]) < 22 /\ Abs(cross[1]) * 100000000 < cross[2]
        THEN [ok |-> FALSE, pt |-> ipoint]
        ELSE With(RDiv(RSub(RMul(x[1], direct2[2]), RMul(x[2], direct2[1])), cross),
                  LAMBDA t1 : [ok |-> TRUE, pt |-> PAdd(l1p1, PScale(direct1, t1))])))))

NaN == "NaN"

(* withinSegment: 0 if the point is within the segment, +1 / -1 if it is   *)
(* aligned outside it, NaN if the three points are not collinear.          *)
withinSegment(segm_start, segm_end, point) ==
    With(segm_start, LAMBDA a :
    With(segm_end, LAMBDA b :
    With(point, LAMBDA c :
    With(Norm(PSub(a, b)), LAMBDA ab :
    With(Norm(PSub(a, c)), LAMBDA ac :
    With(Norm(PSub(b, c)), LAMBDA bc :
    With(RAdd(RAdd(ab, ac), bc), LAMBDA per :
    With(RAbs(RAdd(RAdd(RMul(a[1], RSub(b[2], c[2])),
                        RMul(b[1], RSub(c[2], a[2]))),
                   RMul(c[1], RSub(a[2], b[2])))), LAMBDA det :
        \* 0/0 is NaN, and NaN > 1e-3 is false
        IF per[1] # 0 /\ RGt(RDiv(det, RMul(RInt(2), RMul(per, per))), <<1, 1000>>)
        THEN NaN
        ELSE IF RLe(ac, ab) /\ RLe(bc, ab) THEN RZero
        ELSE IF RGt(ac, bc) THEN ROne ELSE RNeg(ROne)))))))))

-----------------------------------------------------------------------------
(* Polystripes.  Vectors are 0-based in the code and 1-based here: the     *)
(* code's baseline[n] is baseline[n + 1].                                  *)

\* v *= 1.0/cv::norm(v); dot products of unit vectors.  A zero vector
\* normalises to NaN, and every comparison with NaN is false.
UnitDot(u, v) == RDiv(PDot(u, v), RMul(Norm(u), Norm(v)))

Degenerate(u, v) == Norm(u)[1] = 0 \/ Norm(v)[1] = 0

\* eps of isPolystripe, 1e-2
PolyEps == <<1, 100>>

\* fabs(1-fabs(above.base)) > eps
NotParallel(u, v) ==
    ~Degenerate(u, v) /\ RGt(RAbs(RSub(ROne, RAbs(UnitDot(u, v)))), PolyEps)

(* isPolystripe, the two later tests of the body of its for loop at n      *)
(* (0-based): lines are parallel, stripe extremes perpendicular to the     *)
(* baseline.  TRUE when one of them returns false.  A baseline of one      *)
(* point makes the code read baseline[1] past the end of the vector: past  *)
(* is the value it finds.                                                  *)
ShapeFailsAt(coords, baseline, n, past) ==
    LET size == Len(baseline)
        m == Len(coords) - 1 - n
        c(i) == coords[i + 1]
        b(i) == IF i + 1 <= Len(baseline) THEN baseline[i + 1] ELSE past
        prevbase == PSub(b(n - 1), b(n))
        prevabove == PSub(c(n - 1), c(n))
        prevbelow == PSub(c(m + 1), c(m))
        base == IF n > 0 THEN prevbase ELSE PSub(b(1), b(0))
        extr == PSub(c(n), c(m))
    IN  \/ n > 0 /\ (NotParallel(prevabove, prevbase) \/ NotParallel(prevbelow, prevbase))
        \/ /\ (n = 0 \/ n = size - 1)
           /\ ~Degenerate(base, extr)
           /\ RGt(UnitDot(base, extr), PolyEps)

(* isPolystripe, the body of its for loop at n (0-based), TRUE when the    *)
(* iteration returns false: its first test is withinSegment( coords[n],    *)
(* coords[m], baseline[n] ) == 0.0.                                        *)
PolystripeFailsAt(coords, baseline, n, past) ==
    \/ withinSegment(coords[n + 1], coords[Len(coords) - n], baseline[n + 1]) = RZero
    \/ ShapeFailsAt(coords, baseline, n, past)

(* PageXML::isPolystripe( coords, baseline, &height, &offset ):            *)
(* [ok, height, offset]; height and offset are written only on success.    *)
isPolystripe(coords, baseline, past) ==
    IF Len(baseline) = 0 \/ Len(baseline) * 2 # Len(coords)
    THEN [ok |-> FALSE, height |-> NaN, offset |-> NaN]
    ELSE IF \E n \in 0..(Len(baseline) - 1) :
                PolystripeFailsAt(coords, baseline, n, past)
    THEN [ok |-> FALSE, height |-> NaN, offset |-> NaN]
    ELSE With(Norm(PSub(baseline[1], coords[1])), LAMBDA offup :
         With(Norm(PSub(baseline[1], coords[Len(coords)])), LAMBDA offdown :
            [ok |-> TRUE, height |-> RAdd(offup, offdown),
             offset |-> IF RAdd(offup, offdown)[1] = 0 THEN NaN
                        ELSE RDiv(offdown, RAdd(offup, offdown))]))

\* cv::Point2f(), the value of a default-constructed point
PZero == <<RZero, RZero>>

\* perp = cv::Point2f(base.y,-base.x)*(off/cv::norm(base))
Perp(base, off) == PScale(<<base[2], RNeg(base[1])>>, RDiv(off, Norm(base)))

(* setPolystripe, first loop from n (0-based): the state is the record     *)
(* [coords, l1p1, l1p2, l2p1, l2p2] of the function's locals.              *)
RECURSIVE StripeAbove(_, _, _, _)
StripeAbove(baseline, offup, n, st) ==
    IF n >= Len(baseline) - 1 THEN st
    ELSE With(Perp(PSub(baseline[n + 2], baseline[n + 1]), offup), LAMBDA perp :
         With(PAdd(baseline[n + 1], perp), LAMBDA l2p1 :
         With(PAdd(baseline[n + 2], perp), LAMBDA l2p2 :
         With(intersection(st.l1p1, st.l1p2, l2p1, l2p2, PZero), LAMBDA isect :
            StripeAbove(baseline, offup, n + 1,
                [coords |-> Append(st.coords,
                                   IF n = 0 \/ ~isect.ok THEN l2p1 ELSE isect.pt),
                 l1p1 |-> l2p1, l1p2 |-> l2p2, l2p1 |-> l2p1, l2p2 |-> l2p2])))))

\* setPolystripe, second loop from n (0-based) down to 1
RECURSIVE StripeBelow(_, _, _, _)
StripeBelow(baseline, offdown, n, st) ==
    IF n <= 0 THEN st
    ELSE With(Perp(PSub(baseline[n], baseline[n + 1]), offdown), LAMBDA perp :
         With(PAdd(baseline[n + 1], perp), LAMBDA l2p1 :
         With(PAdd(baseline[n], perp), LAMBDA l2p2 :
         With(intersection(st.l1p1, st.l1p2, l2p1, l2p2, PZero), LAMBDA isect :
            StripeBelow(baseline, offdown, n - 1,
                [coords |-> Append(st.coords,
                                   IF n = Len(baseline) - 1 \/ ~isect.ok
                                   THEN l2p1 ELSE isect.pt),
                 l1p1 |-> l2p1, l1p2 |-> l2p2, l2p1 |-> l2p1, l2p2 |-> l2p2])))))

(* setPolystripe from "double offup" to the coords handed to setCoords.    *)
PolystripeCoords(baseline, height, offset) ==
    With(RSub(height, RMul(offset, height)), LAMBDA offup :
    With(StripeAbove(baseline, offup, 0,
             [coords |-> <<>>, l1p1 |-> PZero, l1p2 |-> PZero,
              l2p1 |-> PZero, l2p2 |-> PZero]), LAMBDA up :
    \* int n = baseline.size()-1 is -1 for an empty baseline
    With(StripeBelow(baseline, RSub(height, offup), Len(baseline) - 1,
             [up EXCEPT !.coords = Append(up.coords, up.l2p2)]), LAMBDA dn :
        Append(dn.coords, dn.l2p2))))

-----------------------------------------------------------------------------
(* The parts of the model that a specification does not exercise rest.     *)

SpIdle ==
    /\ sp_pc = "off" /\ sp_in = None /\ sp_str = <<>> /\ sp_p = 0
    /\ sp_points = <<>> /\ sp_first = <<>> /\ sp_rounded = FALSE /\ sp_out = <<>>

BbIdle == bb_pc = "off" /\ bb_points = <<>> /\ bb_bbox = <<>> /\ bb_is = FALSE

StIdle == st_pc = "off" /\ st_node = None /\ st_args = None /\ st_res = None

RoIdle ==
    /\ ro_pc = "off" /\ ro_lines = <<>> /\ ro_cfg = None /\ ro_stack = <<>>
    /\ ro_num_joins = 0 /\ ro_line_groups = <<>> /\ ro_join_group_score = <<>>
    /\ ro_reading_order = <<>>

OvIdle ==
    /\ ov_pc = "off" /\ ov_in = None /\ ov_to = <<>> /\ ov_npage = 0 /\ ov_n = 0
    /\ ov_pageregadded = FALSE /\ ov_linesCopied = 0 /\ ov_ret = -1 /\ ov_err = ""
    /\ ov_iou = <<>>

CrIdle ==
    /\ cr_pc = "off" /\ cr_doc = <<>> /\ cr_pagesImage = <<>> /\ cr_loads = <<>>
    /\ cr_calls = 0 /\ cr_last = <<>>

GmIdle == gm_pc = "off" /\ gm_node = <<>> /\ gm_call = <<>> /\ gm_res = ""

FnIdle == fn_pc = "off" /\ fn_call = <<>> /\ fn_ret = <<>>

IdIdle == id_pc = "off" /\ id_elems = <<>> /\ id_calls = 0 /\ id_last = <<>>

PgIdle ==
    /\ pg_pc = "off" /\ pg_pages = <<>> /\ pg_pagesImage = <<>>
    /\ pg_pagesImageFilename = <<>> /\ pg_pagesImageBase = <<>>
    /\ pg_calls = 0 /\ pg_last = <<>>

PrIdle ==
    /\ pr_pc = "off" /\ pr_metadata = <<>> /\ pr_process_running = 0
    /\ pr_calls = 0 /\ pr_last = <<>>

-----------------------------------------------------------------------------
(* Specification SpecPoints: stringToPoints on a string of tokens, then    *)
(* pointsToString on its result, then stringToPoints on that string.       *)

\* most tokens of an input string
MaxTokens == 2
\* most spaces before the first and after the last token
MaxPad == 1
\* most spaces between two tokens
MaxSep == 2

(* The tokens: chars is the text, wf tells whether the text is one         *)
(* well-formed "x,y" pair, pt is the point a well-formed token denotes.    *)
Tokens == <<
    [chars |-> <<"1", ",", "2">>, wf |-> TRUE, pt |-> Pt(1, 2)],
    [chars |-> <<"-", "3", ",", "0", ".", "5">>, wf |-> TRUE,
     pt |-> <<RInt(-3), Rat(1, 2)>>],
    [chars |-> <<"1", "2", "3", "4", "5", "6", "7", ",", "8">>, wf |-> TRUE,
     pt |-> Pt(1234567, 8)],
    [chars |-> <<"x">>, wf |-> FALSE, pt |-> None],
    [chars |-> <<"3", ",", "4", "x">>, wf |-> FALSE, pt |-> None],
    [chars |-> <<"7", ",">>, wf |-> FALSE, pt |-> None] >>

RECURSIVE Spaces(_)
Spaces(k) == IF k <= 0 THEN <<>> ELSE <<" ">> \o Spaces(k - 1)

RECURSIVE JoinTokens(_, _)
JoinTokens(toks, sep) ==
    IF Len(toks) = 0 THEN <<>>
    ELSE IF Len(toks) = 1 THEN Tokens[toks[1]].chars
    ELSE JoinTokens(SubSeq(toks, 1, Len(toks) - 1), sep)
             \o Spaces(sep) \o Tokens[toks[Len(toks)]].chars

SpInputs ==
    [toks : UNION {[1..k -> 1..Len(Tokens)] : k \in 1..MaxTokens},
     lead : 0..MaxPad, sep : 1..MaxSep, trail : 0..MaxPad]

SpInit ==
    /\ sp_in \in SpInputs
    /\ sp_str = Spaces(sp_in.lead) \o JoinTokens(sp_in.toks, sp_in.sep)
                \o Spaces(sp_in.trail)
    /\ sp_pc = "scan"
    /\ sp_p = 0
    /\ sp_points = <<>>
    /\ sp_first = <<>>
    /\ sp_rounded = FALSE
    /\ sp_out = <<>>

\* one iteration of the loop of stringToPoints( spoints )
SpScanStep ==
    /\ sp_pc \in {"scan", "rescan"}
    /\ \E it \in {ScanIter(sp_str, sp_p, sp_points)} :
           /\ sp_points' = it.points
           /\ sp_p' = it.p
           /\ sp_pc' = IF ~it.done THEN sp_pc
                       ELSE IF sp_pc = "scan" THEN "parsed" ELSE "end"
           /\ sp_first' = IF it.done /\ sp_pc = "scan" THEN it.points ELSE sp_first
    /\ UNCHANGED <<sp_in, sp_str, sp_rounded, sp_out>>
    /\ UNCHANGED <<bbVars, stVars, roVars, ovVars, crVars, gmVars, fnVars, idVars, pgVars, prVars>>

\* pointsToString( points, rounded ) on the parsed points, parsed again next
SpFormat ==
    /\ sp_pc = "parsed"
    /\ \E rounded \in BOOLEAN :
       \E str \in {pointsToString(sp_first, rounded)} :
          /\ sp_rounded' = rounded
          /\ sp_out' = str
          /\ sp_str' = str
    /\ sp_pc' = "rescan"
    /\ sp_p' = 0
    /\ sp_points' = <<>>
    /\ UNCHANGED <<sp_in, sp_first>>
    /\ UNCHANGED <<bbVars, stVars, roVars, ovVars, crVars, gmVars, fnVars, idVars, pgVars, prVars>>

SpNext == SpScanStep \/ SpFormat

SpStart == SpInit /\ BbIdle /\ StIdle /\ RoIdle /\ OvIdle /\ CrIdle /\ GmIdle
    /\ FnIdle /\ IdIdle /\ PgIdle /\ PrIdle

SpecPoints == SpStart /\ [][SpNext]_vars

-----------------------------------------------------------------------------
(* Properties of SpecPoints.                                               *)

\* the points the tokens toks denote, in token order
TokenPoints(toks) == [i \in 1..Len(toks) |-> Tokens[toks[i]].pt]

AllWellFormed(toks) == \A i \in 1..Len(toks) : Tokens[toks[i]].wf

\* position of the first malformed token, 0 when there is none
FirstMalformed(toks) ==
    IF AllWellFormed(toks) THEN 0
    ELSE CHOOSE j \in 1..Len(toks) :
            /\ ~Tokens[toks[j]].wf
            /\ \A i \in 1..(j - 1) : Tokens[toks[i]].wf

(* C9: for a string of k well-formed tokens separated by one or more       *)
(* spaces, with optional leading and trailing spaces, stringToPoints       *)
(* returns exactly the k points of the tokens in token order, and          *)
(* stringToPoints of pointsToString of them gives the same k points.       *)
C9_ParseRoundTrip ==
    /\ (sp_pc \in {"parsed", "rescan", "end"} /\ AllWellFormed(sp_in.toks))
           => sp_first = TokenPoints(sp_in.toks)
    /\ (sp_pc = "end" /\ AllWellFormed(sp_in.toks))
           => sp_points = TokenPoints(sp_in.toks)

(* C10: when the first malformed token is the j-th token, stringToPoints   *)
(* returns exactly the points of the j-1 tokens before it, in order, and   *)
(* nothing parsed from that token or a later one.                          *)
C10_StopsAtFirstMalformed ==
    (sp_pc \in {"parsed", "rescan", "end"} /\ FirstMalformed(sp_in.toks) > 0)
        => sp_first = TokenPoints(SubSeq(sp_in.toks, 1, FirstMalformed(sp_in.toks) - 1))

-----------------------------------------------------------------------------
(* Bounding boxes.                                                         *)

(* PageXML::pointsLimits: lim is [xmin, xmax, ymin, ymax] as the caller    *)
(* passed them; an empty vector leaves them as they were.                  *)
RECURSIVE LimitsFrom(_, _, _)
LimitsFrom(points, n, lim) ==
    IF n > Len(points) THEN lim
    ELSE LimitsFrom(points, n + 1,
            [xmin |-> IF RGt(lim.xmin, points[n][1]) THEN points[n][1] ELSE lim.xmin,
             xmax |-> IF RLt(lim.xmax, points[n][1]) THEN points[n][1] ELSE lim.xmax,
             ymin |-> IF RGt(lim.ymin, points[n][2]) THEN points[n][2] ELSE lim.ymin,
             ymax |-> IF RLt(lim.ymax, points[n][2]) THEN points[n][2] ELSE lim.ymax])

pointsLimits(points, lim) ==
    IF Len(points) = 0 THEN lim
    ELSE LimitsFrom(points, 1,
            [xmin |-> points[1][1], xmax |-> points[1][1],
             ymin |-> points[1][2], ymax |-> points[1][2]])

(* PageXML::pointsBBox: the vector bbox after the call.  The limits are    *)
(* read only after pointsLimits wrote them, points being non-empty.        *)
pointsBBox(points) ==
    IF Len(points) = 0 THEN <<>>
    ELSE With(pointsLimits(points, None), LAMBDA lim :
            << <<lim.xmin, lim.ymin>>, <<lim.xmax, lim.ymin>>,
               <<lim.xmax, lim.ymax>>, <<lim.xmin, lim.ymax>> >>)

\* PageXML::isBBox
isBBox(points) ==
    /\ Len(points) = 4
    /\ points[1][1] = points[4][1]
    /\ points[1][2] = points[2][2]
    /\ points[2][1] = points[3][1]
    /\ points[3][2] = points[4][2]

-----------------------------------------------------------------------------
(* Specification SpecBBox: pointsBBox and then isBBox on a vector of       *)
(* points of a small grid.                                                 *)

\* largest coordinate of a point
MaxCoord == 1
\* most points of the vector
MaxPoints == 4

BbInputs ==
    UNION {[1..k -> {Pt(x, y) : x \in 0..MaxCoord, y \in 0..MaxCoord}] :
           k \in 0..MaxPoints}

BbInit ==
    /\ bb_points \in BbInputs
    /\ bb_pc = "in"
    /\ bb_bbox = <<>>
    /\ bb_is = FALSE

\* pointsBBox( points, bbox )
BbCompute ==
    /\ bb_pc = "in"
    /\ bb_bbox' = pointsBBox(bb_points)
    /\ bb_pc' = "bbox"
    /\ UNCHANGED <<bb_points, bb_is>>
    /\ UNCHANGED <<spVars, stVars, roVars, ovVars, crVars, gmVars, fnVars, idVars, pgVars, prVars>>

\* isBBox( points )
BbTest ==
    /\ bb_pc = "bbox"
    /\ bb_is' = isBBox(bb_points)
    /\ bb_pc' = "end"
    /\ UNCHANGED <<bb_points, bb_bbox>>
    /\ UNCHANGED <<spVars, stVars, roVars, ovVars, crVars, gmVars, fnVars, idVars, pgVars, prVars>>

BbNext == BbCompute \/ BbTest

BbStart == SpIdle /\ BbInit /\ StIdle /\ RoIdle /\ OvIdle /\ CrIdle /\ GmIdle
    /\ FnIdle /\ IdIdle /\ PgIdle /\ PrIdle

SpecBBox == BbStart /\ [][BbNext]_vars

(* C8: isBBox(points) is true if and only if points equals the list of 4   *)
(* corners (xmin,ymin), (xmax,ymin), (xmax,ymax), (xmin,ymax) that         *)
(* pointsBBox builds from the limits of points; a rectangle listed from    *)
(* another corner or in the opposite direction is not a bbox.              *)
C8_IsBBoxIffCorners ==
    (bb_pc = "end" /\ bb_points # <<>>) => (bb_is <=> bb_points = bb_bbox)

-----------------------------------------------------------------------------
(* Specification SpecStripe: a node whose Baseline was written by          *)
(* setBaseline, then setPolystripe on it, then isPolystripe on the points  *)
(* of its Coords and of its Baseline.                                      *)

\* baseline points lie on the grid 0, 10, .. 10 * MaxCell
MaxCell == 1
\* most points of a Baseline
MaxBasePoints == 3
\* heights are 0 .. MaxHeight
MaxHeight == 2
\* offsets are -1/4, 0, 1/4 .. MaxOffsetNum/4
MaxOffsetNum == 3

StGrid == {Pt(10 * x, 10 * y) : x \in 0..MaxCell, y \in 0..MaxCell}

\* baselines whose consecutive points differ, in exactly one coordinate
StBaselines ==
    {b \in UNION {[1..k -> StGrid] : k \in 0..MaxBasePoints} :
        \A i \in 1..(Len(b) - 1) : (b[i][1] = b[i + 1][1]) # (b[i][2] = b[i + 1][2])}

(* The nodes: a TextLine with the Baseline that setBaseline( node, points ) *)
(* writes, pointsToString( points ), one with a                            *)
(* Baseline whose points attribute is not a point list, one without a      *)
(* Baseline, and an element that is not a TextLine.  has_baseline and      *)
(* has_coords tell whether the child element exists, baseline and coords   *)
(* are the points attributes.                                              *)
StNode(name, has_baseline, baseline) ==
    [name |-> name, has_baseline |-> has_baseline, baseline |-> baseline,
     has_coords |-> FALSE, coords |-> <<>>]

StNodes ==
    {StNode("TextLine", TRUE, pointsToString(b, FALSE)) : b \in StBaselines}
    \cup {StNode("TextLine", TRUE, <<"x">>),
          StNode("TextLine", FALSE, <<>>),
          StNode("TextRegion", FALSE, <<>>)}

StArgs ==
    [height : {RInt(h) : h \in 0..MaxHeight},
     offset : {Rat(k, 4) : k \in (-1)..MaxOffsetNum},
     offset_check : BOOLEAN]

\* PageXML::getPoints on the attribute attr of the node's element
getPoints(has, attr) ==
    IF ~has \/ attr = <<>> THEN <<>> ELSE stringToPoints(attr)

StInit ==
    /\ st_node \in StNodes
    /\ st_args \in StArgs
    /\ st_pc = "in"
    /\ st_res = None

\* setPolystripe( node, height, offset, offset_check )
StSetPolystripe ==
    /\ st_pc = "in"
    /\ IF \/ st_node.name # "TextLine"
          \/ ~st_node.has_baseline
          \/ RLe(st_args.height, RZero)
          \/ /\ st_args.offset_check
             /\ (RLt(st_args.offset, RZero) \/ RGt(st_args.offset, <<1, 2>>))
       THEN /\ st_pc' = "failed"
            /\ UNCHANGED st_node
       ELSE /\ st_pc' = "set"
            /\ st_node' = [st_node EXCEPT !.has_coords = TRUE, !.coords =
                    pointsToString(
                        PolystripeCoords(
                            getPoints(st_node.has_baseline, st_node.baseline),
                            st_args.height, st_args.offset), FALSE)]
    /\ UNCHANGED <<st_args, st_res>>
    /\ UNCHANGED <<spVars, bbVars, roVars, ovVars, crVars, gmVars, fnVars, idVars, pgVars, prVars>>

(* isPolystripe( getPoints(Coords), getPoints(Baseline), &height, &offset ) *)
(* past is what baseline[1] reads: any point when the vector holds one     *)
StIsPolystripe ==
    /\ st_pc = "set"
    /\ \E past \in IF Len(getPoints(st_node.has_baseline, st_node.baseline)) = 1
                   THEN StGrid ELSE {PZero} :
          st_res' = isPolystripe(getPoints(st_node.has_coords, st_node.coords),
                                 getPoints(st_node.has_baseline, st_node.baseline),
                                 past)
    /\ st_pc' = "end"
    /\ UNCHANGED <<st_node, st_args>>
    /\ UNCHANGED <<spVars, bbVars, roVars, ovVars, crVars, gmVars, fnVars, idVars, pgVars, prVars>>

StNext == StSetPolystripe \/ StIsPolystripe

StStart == SpIdle /\ BbIdle /\ StInit /\ RoIdle /\ OvIdle /\ CrIdle /\ GmIdle
    /\ FnIdle /\ IdIdle /\ PgIdle /\ PrIdle

SpecStripe == StStart /\ [][StNext]_vars

\* the points of the node's Baseline
StBaseline == getPoints(st_node.has_baseline, st_node.baseline)

\* a polyline of distinct points that never turns back on itself
SimplePolyline(b) ==
    /\ \A i, j \in 1..Len(b) : i # j => b[i] # b[j]
    /\ \A i \in 1..(Len(b) - 2) :
          RGe(PDot(PSub(b[i + 1], b[i]), PSub(b[i + 2], b[i + 1])), RZero)

\* |a - b| <= 1/100 for two numbers of which a may be NaN
Within(a, b) == a # NaN /\ RLe(RAbs(RSub(a, b)), <<1, 100>>)

(* C6: for a baseline of two or more distinct points forming a simple      *)
(* polyline, a height h > 0 and an offset o in [0, 0.5], isPolystripe on   *)
(* the Coords that setPolystripe(h, o) wrote and on that baseline returns  *)
(* true and reports the height h and the offset o, within tolerance.       *)
C6_PolystripeRoundTrip ==
    ( /\ st_pc = "end"
      /\ Len(StBaseline) >= 2
      /\ SimplePolyline(StBaseline)
      /\ RGe(st_args.offset, RZero) /\ RLe(st_args.offset, <<1, 2>>) )
    => ( /\ st_res.ok
         /\ Within(st_res.height, st_args.height)
         /\ Within(st_res.offset, st_args.offset) )

(* C7: whenever setPolystripe succeeds, the Coords it wrote has exactly    *)
(* twice as many points as the Baseline of the line, also for a Baseline   *)
(* whose points attribute parses to no point or to one point.              *)
C7_CoordsTwiceBaseline ==
    st_pc \in {"set", "end"} => Len(getPoints(st_node.has_coords, st_node.coords)) = 2 * Len(StBaseline)

-----------------------------------------------------------------------------
(* Text line continuation and reading order.  A line is the record         *)
(* [baseline, coords] of the points of its Baseline (2) and Coords (4);    *)
(* line indices are 0-based as in the code, so line n is lines[n + 1].     *)

(* project_2d_to_1d (yoffset = 0): the projections of points onto the      *)
(* normalised axis; an axis of norm 0 gives NaN for every point.           *)
project_2d_to_1d(points, axis) ==
    With(Norm(axis), LAMBDA len :
        [n \in 1..Len(points) |->
            IF len[1] = 0 THEN NaN
            ELSE RAdd(RMul(points[n][1], RDiv(axis[1], len)),
                      RMul(points[n][2], RDiv(axis[2], len)))])

\* static intersection_1d, on the values its reference arguments hold
intersection_1d(a1, a2, b1, b2) ==
    RMax(RZero, RSub(RMin(RMax(a1, a2), RMax(b1, b2)),
                     RMax(RMin(a1, a2), RMin(b1, b2))))

(* static IoU_1d: intersection_1d has put each interval in ascending       *)
(* order when the lengths are added.                                       *)
IoU_1d(a1, a2, b1, b2) ==
    With(intersection_1d(a1, a2, b1, b2), LAMBDA isect :
        IF isect = RZero THEN RZero
        ELSE RDiv(isect, RAdd(RSub(RMax(a1, a2), RMin(a1, a2)),
                              RSub(RMax(b1, b2), RMin(b1, b2)))))

\* PageXML::getBaselineLength( points )
RECURSIVE getBaselineLength(_)
getBaselineLength(points) ==
    IF Len(points) < 2 THEN RZero
    ELSE RAdd(getBaselineLength(SubSeq(points, 1, Len(points) - 1)),
              Norm(PSub(points[Len(points)], points[Len(points) - 1])))

\* -atan2( points[n].y-points[n-1].y, points[n].x-points[n-1].x ), n 0-based
SegmentAngle(points, n) ==
    RNeg(Atan2(RSub(points[n + 1][2], points[n][2]),
               RSub(points[n + 1][1], points[n][1])))

\* avgAngle of getBaselineOrientation after the segments 1 .. n
RECURSIVE AngleSum(_, _)
AngleSum(points, n) ==
    IF n < 1 THEN RZero
    ELSE RAdd(AngleSum(points, n - 1),
              RMul(Norm(PSub(points[n + 1], points[n])),
                   IF n = 1 THEN SegmentAngle(points, 1)
                   ELSE RAdd(SegmentAngle(points, 1),
                             angleDiff(SegmentAngle(points, n),
                                       SegmentAngle(points, 1)))))

\* PageXML::getBaselineOrientation( points ), in units of pi
getBaselineOrientation(points) ==
    IF Len(points) = 0 \/ getBaselineLength(points) = RZero THEN NaN
    ELSE RDiv(AngleSum(points, Len(points) - 1), getBaselineLength(points))

(* testTextLineContinuation, pair (n, m) of its double loop, from "Project  *)
(* baseline limits onto the local horizontal axis" to the IoU: direct, and *)
(* whether line n starts before line m, and the horizontal IoU.            *)
PairHorizAxis(ln, lm, horiz) ==
    LET horiz_n == project_2d_to_1d(ln.baseline, horiz)
        horiz_m == project_2d_to_1d(lm.baseline, horiz)
        direct == IF RLt(horiz_n[1], horiz_n[2]) THEN 1 ELSE -1
    IN  [direct |-> direct,
         before |-> ~RLt(RMul(RInt(direct), horiz_m[1]),
                         RMul(RInt(direct), horiz_n[1])),
         iou |-> IoU_1d(horiz_n[1], horiz_n[2], horiz_m[1], horiz_m[2])]

\* v *= 1.0/cv::norm(v)
Unit(v) == PScale(v, RDiv(ROne, Norm(v)))

PairHoriz(ln, lm) ==
    PairHorizAxis(ln, lm,
        PScale(PAdd(PScale(Unit(PSub(ln.baseline[2], ln.baseline[1])),
                           getBaselineLength(ln.baseline)),
                    PScale(Unit(PSub(lm.baseline[2], lm.baseline[1])),
                           getBaselineLength(lm.baseline))),
               RDiv(ROne, RAdd(getBaselineLength(ln.baseline),
                               getBaselineLength(lm.baseline)))))

(* The same pair from "Compute coords endpoint-startpoint intersection     *)
(* factors" to prolong_fact, in three steps: the six intersections, the    *)
(* projections onto the facing sides, the factors.  [ok, fact], ok = FALSE *)
(* when one of the intersections does not exist.                           *)
ProlongFromProj(ln, lm, axis_m, axis_n, bnm, bmn, vert_nm_n, vert_nm_m, vert_mn_n, vert_mn_m) ==
    LET coords_fact_nm ==
            RDiv(intersection_1d(vert_nm_n[1], vert_nm_n[2],
                                 vert_nm_m[1], vert_nm_m[4]), Norm(axis_m))
        coords_fact_mn ==
            RDiv(intersection_1d(vert_mn_n[2], vert_mn_n[3],
                                 vert_mn_m[1], vert_mn_m[2]), Norm(axis_n))
        bline_fact_nm == RDiv(Norm(PSub(bnm.pt, lm.baseline[1])), Norm(axis_m))
        bline_fact_mn == RDiv(Norm(PSub(bmn.pt, ln.baseline[2])), Norm(axis_n))
        coords_fact == RMul(<<1, 2>>, RAdd(coords_fact_nm, coords_fact_mn))
        bline_fact == RMul(<<1, 2>>, RAdd(RSub(ROne, bline_fact_nm),
                                          RSub(ROne, bline_fact_mn)))
    IN  \* alpha = 0.8
        [ok |-> TRUE,
         fact |-> RAdd(RMul(<<4, 5>>, bline_fact), RMul(<<1, 5>>, coords_fact))]

ProlongFromIsect(ln, lm, nm0, nm1, mn0, mn1, bnm, bmn) ==
    IF ~(nm0.ok /\ nm1.ok /\ mn0.ok /\ mn1.ok /\ bnm.ok /\ bmn.ok)
    THEN [ok |-> FALSE, fact |-> RZero]
    ELSE ProlongFromProj(ln, lm,
            PSub(lm.coords[4], lm.coords[1]), PSub(ln.coords[3], ln.coords[2]),
            bnm, bmn,
            project_2d_to_1d(<<nm0.pt, nm1.pt>>, PSub(lm.coords[4], lm.coords[1])),
            project_2d_to_1d(lm.coords, PSub(lm.coords[4], lm.coords[1])),
            project_2d_to_1d(ln.coords, PSub(ln.coords[3], ln.coords[2])),
            project_2d_to_1d(<<mn0.pt, mn1.pt>>, PSub(ln.coords[3], ln.coords[2])))

ProlongFact(ln, lm) ==
    ProlongFromIsect(ln, lm,
        intersection(ln.coords[1], ln.coords[2], lm.coords[1], lm.coords[4], PZero),
        intersection(ln.coords[4], ln.coords[3], lm.coords[1], lm.coords[4], PZero),
        intersection(lm.coords[1], lm.coords[2], ln.coords[2], ln.coords[3], PZero),
        intersection(lm.coords[4], lm.coords[3], ln.coords[2], ln.coords[3], PZero),
        intersection(ln.baseline[1], ln.baseline[2], lm.coords[1], lm.coords[4], PZero),
        intersection(lm.baseline[2], lm.baseline[1], ln.coords[2], ln.coords[3], PZero))

NoJoin == [join |-> FALSE, score |-> RZero, direct |-> 0]

\* NaN among the rationals: 0/0, for which RLt and RGt are false
RNaN == <<0, 0>>

\* a baseline of two equal points: length 0, orientation 0/0
ZeroLength(baseline) == baseline[1] = baseline[2]

(* What the tests of a pair compare with the thresholds: the absolute     *)
(* angle difference, the local horizontal axis results, the factor.        *)
PairGeom(ln, lm) ==
    IF ZeroLength(ln.baseline) \/ ZeroLength(lm.baseline)
    THEN \* angle is NaN, dir_n or dir_m is 0 * inf: horiz and the projections
         \* are NaN, direct is -1, the test of the start is false and
         \* IoU_1d gets std::max(0.0, NaN), which is 0.0
         [ang |-> RNaN,
          h |-> [direct |-> -1, before |-> TRUE, iou |-> RZero],
          f |-> ProlongFact(ln, lm)]
    ELSE [ang |-> RAbs(angleDiff(getBaselineOrientation(ln.baseline),
                                 getBaselineOrientation(lm.baseline))),
          h |-> PairHoriz(ln, lm),
          f |-> ProlongFact(ln, lm)]

(* The tests of pair (n, m): [join, score, direct], join = FALSE where the *)
(* code continues with the next pair.  cfg is [ang, iou, pro], the three   *)
(* thresholds.                                                             *)
PairTest(pg, cfg) ==
    IF RGt(pg.ang, cfg.ang) THEN NoJoin
    ELSE IF ~pg.h.before THEN NoJoin
    ELSE IF RGt(pg.h.iou, cfg.iou) THEN NoJoin
    ELSE IF ~pg.f.ok THEN NoJoin
    ELSE IF RLt(pg.f.fact, cfg.pro) THEN NoJoin
    ELSE [join |-> TRUE, score |-> pg.f.fact, direct |-> pg.h.direct]

(* The four vectors line_groups, line_group_order, line_group_scores and   *)
(* line_group_direct are the record [groups, order, scores, direct] of     *)
(* sequences of equal length.                                              *)

\* the k of "for ( k=0; k<line_groups.size(); k++ ) if ... break", 1-based
RECURSIVE FindGroup(_, _, _, _)
FindGroup(groups, n, m, k) ==
    IF k > Len(groups) THEN k
    ELSE IF n \in groups[k] \/ m \in groups[k] THEN k
    ELSE FindGroup(groups, n, m, k + 1)

\* JoinPair pushing m before n onto group_order
JoinPairSwapped(g, n, m, t) ==
    LET k == FindGroup(g.groups, n, m, 1)
    IN  IF k <= Len(g.groups)
        THEN [groups |-> [g.groups EXCEPT ![k] = @ \cup {n, m}],
              order |-> [g.order EXCEPT ![k] = @ \o <<m, n>>],
              scores |-> [g.scores EXCEPT ![k] = Append(@, t.score)],
              direct |-> [g.direct EXCEPT ![k] = t.direct]]
        ELSE [groups |-> Append(g.groups, {n, m}),
              order |-> Append(g.order, <<m, n>>),
              scores |-> Append(g.scores, <<t.score>>),
              direct |-> Append(g.direct, t.direct)]

\* "Add text lines to a line group (new or existing)"
JoinPair(g, n, m, t) ==
    LET k == FindGroup(g.groups, n, m, 1)
    IN  IF k <= Len(g.groups)
        THEN [groups |-> [g.groups EXCEPT ![k] = @ \cup {n, m}],
              order |-> [g.order EXCEPT ![k] = @ \o <<n, m>>],
              scores |-> [g.scores EXCEPT ![k] = Append(@, t.score)],
              direct |-> [g.direct EXCEPT ![k] = t.direct]]
        ELSE [groups |-> Append(g.groups, {n, m}),
              order |-> Append(g.order, <<n, m>>),
              scores |-> Append(g.scores, <<t.score>>),
              direct |-> Append(g.direct, t.direct)]

\* the body of the pair loop for n # m, t being the tests of the pair
JoinIf(g, n, m, t) == IF t.join THEN JoinPair(g, n, m, t) ELSE g

(* The TextLine elements the calls are made on, as the points getPoints   *)
(* returns for them: left-to-right lines of one segment with the           *)
(* polystripe of height 20 centred on the baseline.  All coordinates are   *)
(* integers, which the attribute strings hold exactly.                     *)
RoLine(x0, y0, x1, y1) ==
    [baseline |-> <<Pt(x0, y0), Pt(x1, y1)>>,
     coords |-> PolystripeCoords(<<Pt(x0, y0), Pt(x1, y1)>>, RInt(20), <<1, 2>>)]

PlainLines ==
    << RoLine(0, 10, 100, 10), RoLine(105, 10, 200, 10),
       RoLine(0, 15, 100, 15), RoLine(105, 15, 200, 15),
       RoLine(0, 50, 100, 50), RoLine(0, 90, 100, 90),
       RoLine(205, 10, 300, 10) >>

(* Lines 8 to 10 step down from one to the next; line 11 has a Baseline of *)
(* two equal points in a box, line 12 a Coords whose end edge, from its    *)
(* second to its third point, has length 0.                               *)
OtherLines ==
    << RoLine(0, 22, 100, 22), RoLine(105, 14, 200, 14), RoLine(205, 18, 300, 18),
       [baseline |-> <<Pt(50, 130), Pt(50, 130)>>,
        coords |-> <<Pt(0, 120), Pt(100, 120), Pt(100, 140), Pt(0, 140)>>],
       [baseline |-> <<Pt(0, 170), Pt(100, 170)>>,
        coords |-> <<Pt(0, 160), Pt(100, 170), Pt(100, 170), Pt(0, 180)>>] >>

LineCatalog == PlainLines \o OtherLines

\* the pair geometry of every two lines of the catalog
PairTable ==
    [a \in 1..Len(LineCatalog) |->
        [b \in 1..Len(LineCatalog) |-> PairGeom(LineCatalog[a], LineCatalog[b])]]

(* "Loop through all directed pairs of text lines" from pair number q on,  *)
(* pair q being n = q div num_lines, m = q mod num_lines.                  *)
RECURSIVE PairLoop(_, _, _, _)
PairLoop(lines, cfg, q, g) ==
    IF q >= Len(lines) * Len(lines) THEN g
    ELSE IF q \div Len(lines) = q % Len(lines) THEN PairLoop(lines, cfg, q + 1, g)
    ELSE PairLoop(lines, cfg, q + 1,
            JoinIf(g, q \div Len(lines), q % Len(lines),
                   PairTest(PairTable[lines[(q \div Len(lines)) + 1]]
                                     [lines[(q % Len(lines)) + 1]], cfg)))

\* the first occurrences in s[i..], after those of acc
RECURSIVE FirstOccurrences(_, _, _)
FirstOccurrences(s, i, acc) ==
    IF i > Len(s) THEN acc
    ELSE FirstOccurrences(s, i + 1,
            IF \E j \in 1..Len(acc) : acc[j] = s[i] THEN acc ELSE Append(acc, s[i]))

Reverse(s) == [i \in 1..Len(s) |-> s[Len(s) + 1 - i]]

\* the members of S in ascending order
RECURSIVE Ascending(_)
Ascending(S) ==
    IF S = {} THEN <<>>
    ELSE <<CHOOSE x \in S : \A y \in S : x <= y>>
         \o Ascending(S \ {CHOOSE x \in S : \A y \in S : x <= y})

(* The orders in which "for ( auto it = line_groups[k].begin(); ..." may   *)
(* visit the unordered_set whose members were inserted as order lists      *)
(* them: the standard leaves the order open; libstdc++ visits small sets   *)
(* in reverse insertion order.  The insertion order and the ascending      *)
(* order stand for the other implementations.                              *)
IterationOrders(order) ==
    { Reverse(FirstOccurrences(order, 1, <<>>)),
      FirstOccurrences(order, 1, <<>>),
      Ascending({order[i] : i \in 1..Len(order)}) }

(* cv::sortIdx( vals, sidx, flags ) on the entries S of vals: every order  *)
(* of the (0-based) indices that is sorted; equal values may come in any   *)
(* order.                                                                  *)
RECURSIVE SortOrders(_, _, _)
SortOrders(vals, S, ascending) ==
    IF S = {} THEN {<<>>}
    ELSE UNION { { <<i - 1>> \o r : r \in SortOrders(vals, S \ {i}, ascending) } :
                 i \in { j \in S : \A l \in S :
                            IF ascending THEN RLe(vals[j], vals[l])
                            ELSE RGe(vals[j], vals[l]) } }

\* horiz after the first n baselines of "Get horizontal direction"
RECURSIVE DirSum(_, _)
DirSum(bl, n) ==
    IF n = 0 THEN PZero
    ELSE PAdd(DirSum(bl, n - 1),
              PScale(PSub(bl[n][2], bl[n][1]),
                     RDiv(getBaselineLength(bl[n]), Norm(PSub(bl[n][2], bl[n][1])))))

RECURSIVE SumSeq(_, _)
SumSeq(s, n) == IF n = 0 THEN RZero ELSE RAdd(SumSeq(s, n - 1), s[n])

\* horiz: the length-weighted direction of the baselines bl
WeightedDir(bl) ==
    PScale(DirSum(bl, Len(bl)),
           RDiv(ROne, SumSeq([n \in 1..Len(bl) |-> getBaselineLength(bl[n])], Len(bl))))

(* "Check that high horizontal overlaps within group": blines are the      *)
(* baselines bl projected onto horiz.                                      *)
HighOverlap(bl, horiz, max_horiz_iou) ==
    \E j \in 1..Len(bl) : \E i \in (j + 1)..Len(bl) :
        RGt(IoU_1d(project_2d_to_1d(bl[j], horiz)[1], project_2d_to_1d(bl[j], horiz)[2],
                   project_2d_to_1d(bl[i], horiz)[1], project_2d_to_1d(bl[i], horiz)[2]),
            max_horiz_iou)

(* A running call of testTextLineContinuation after its pair loop:         *)
(*   lines, cfg      the arguments (lines as numbers of LineCatalog),      *)
(*   g               line_groups, line_group_order, _scores, _direct,      *)
(*   k               the group the loop at 3673 is at (1-based),           *)
(*   idx             the idx of group k while the call recurses,           *)
(*   extra_order, extra_score   extra_group_order, extra_group_score.      *)
Frame(lines, cfg) ==
    [lines |-> lines, cfg |-> cfg,
     g |-> PairLoop(lines, cfg, 0, [groups |-> <<>>, order |-> <<>>,
                                     scores |-> <<>>, direct |-> <<>>]),
     k |-> 1, idx |-> <<>>, extra_order |-> <<>>, extra_score |-> <<>>]

\* the baselines of the lines idx of frame f
GroupBaselines(f, idx) ==
    [j \in 1..Len(idx) |-> LineCatalog[f.lines[idx[j] + 1]].baseline]

\* recurse of group f.k visited in the order idx
GroupRecurses(f, idx) ==
    HighOverlap(GroupBaselines(f, idx), WeightedDir(GroupBaselines(f, idx)),
                f.cfg.iou)

\* cent and hpos of group f.k visited in the order idx
GroupHpos(f, idx) ==
    project_2d_to_1d([j \in 1..Len(idx) |->
                         PScale(PAdd(GroupBaselines(f, idx)[j][1],
                                     GroupBaselines(f, idx)[j][2]), <<1, 2>>)],
                     WeightedDir(GroupBaselines(f, idx)))

recurse_factor == <<9, 10>>

\* the arguments of the recursive call on the lines idx of frame f
RecurseFrame(f, idx) ==
    Frame([j \in 1..Len(idx) |-> f.lines[idx[j] + 1]],
          [ang |-> RMul(f.cfg.ang, recurse_factor),
           iou |-> RMul(f.cfg.iou, recurse_factor),
           pro |-> RDiv(f.cfg.pro, recurse_factor)])

(* Group f.k of frame f with "Sort text lines by horizontal center         *)
(* projections" and "Score as average of scores" done, sidx being what     *)
(* cv::sortIdx gave.                                                       *)
SortedGroup(f, idx, sidx) ==
    [f EXCEPT
        !.g.order[f.k] = [j \in 1..Len(sidx) |-> idx[sidx[j] + 1]],
        !.g.scores[f.k] = <<RDiv(SumSeq(f.g.scores[f.k], Len(f.g.scores[f.k])),
                                 RInt(Len(f.g.scores[f.k])))>>,
        !.k = f.k + 1]

\* s without its entry k
Erase(s, k) == SubSeq(s, 1, k - 1) \o SubSeq(s, k + 1, Len(s))

\* _line_group_order and _line_group_score of a frame whose group loop ended
OutOrder(f) == f.g.order \o f.extra_order

OutScore(f) == [k \in 1..Len(f.g.scores) |-> f.g.scores[k][1]] \o f.extra_score

\* recurse_group_order[j][i] = idx[recurse_group_order[j][i]]
MapIdx(idx, order) ==
    [j \in 1..Len(order) |-> [i \in 1..Len(order[j]) |-> idx[order[j][i] + 1]]]

(* Frame f after its recursive call on group f.k returned the orders and   *)
(* scores rorder, rscore: the group is dropped, or takes the first         *)
(* sub-group and the others become extra groups.                           *)
AfterRecursion(f, rorder, rscore) ==
    IF Len(rorder) = 0
    THEN [f EXCEPT !.g = [groups |-> Erase(f.g.groups, f.k),
                          order |-> Erase(f.g.order, f.k),
                          scores |-> Erase(f.g.scores, f.k),
                          direct |-> Erase(f.g.direct, f.k)],
                   !.idx = <<>>]
    ELSE [f EXCEPT !.g.order[f.k] = MapIdx(f.idx, rorder)[1],
                   !.g.scores[f.k] = <<rscore[1]>>,
                   !.extra_order = @ \o SubSeq(MapIdx(f.idx, rorder), 2, Len(rorder)),
                   !.extra_score = @ \o SubSeq(rscore, 2, Len(rscore)),
                   !.k = f.k + 1,
                   !.idx = <<>>]

\* "Add text lines not in join groups": the groups after line n - 1 was looked at
RECURSIVE WithSingletons(_, _, _, _)
WithSingletons(line_groups, num_joins, num_lines, n) ==
    IF n >= num_lines THEN line_groups
    ELSE WithSingletons(
            IF \E i \in 1..num_joins : \E j \in 1..Len(line_groups[i]) :
                    line_groups[i][j] = n
            THEN line_groups ELSE Append(line_groups, <<n>>),
            num_joins, num_lines, n + 1)

\* gcent of a group after its first n lines
RECURSIVE CentSum(_, _, _)
CentSum(bl, group, n) ==
    IF n = 0 THEN PZero
    ELSE PAdd(CentSum(bl, group, n - 1),
              PScale(PAdd(bl[group[n] + 1][1], bl[group[n] + 1][2]),
                     RMul(getBaselineLength(bl[group[n] + 1]), <<1, 2>>)))

\* "Get vertical group center projections": cent
GroupCenters(bl, line_groups) ==
    [i \in 1..Len(line_groups) |->
        PScale(CentSum(bl, line_groups[i], Len(line_groups[i])),
               RDiv(ROne, SumSeq([j \in 1..Len(line_groups[i]) |->
                                     getBaselineLength(bl[line_groups[i][j] + 1])],
                                 Len(line_groups[i]))))]

\* Vert with the signs exchanged
VertFlipped(horiz) == <<horiz[2], RNeg(horiz[1])>>

\* cv::Point2f vert(-horiz.y,horiz.x)
Vert(horiz) == <<RNeg(horiz[2]), horiz[1]>>

\* "Populate reading order vector"
RECURSIVE Populate(_, _, _)
Populate(line_groups, sidx, ii) ==
    IF ii > Len(sidx) THEN <<>>
    ELSE line_groups[sidx[ii] + 1] \o Populate(line_groups, sidx, ii + 1)

\* the baselines of all the lines
AllBaselines(lines) == [n \in 1..Len(lines) |-> LineCatalog[lines[n]].baseline]

\* vpos of the groups line_groups
Vpos(lines, line_groups) ==
    IF \E n \in 1..Len(lines) : ZeroLength(LineCatalog[lines[n]].baseline)
    THEN \* (length[n]/cv::norm(tmp))*tmp is (0/0)*0: horiz, vert and vpos are NaN
         [i \in 1..Len(line_groups) |-> RNaN]
    ELSE project_2d_to_1d(GroupCenters(AllBaselines(lines), line_groups),
                          Vert(WeightedDir(AllBaselines(lines))))

-----------------------------------------------------------------------------
(* SpecReadingOrder: getTextLinesReadingOrder on up to MaxLines different  *)
(* lines of the catalog, under the default thresholds, a                   *)
(* stricter prolongation threshold and the zero thresholds.  The calls of  *)
(* testTextLineContinuation are a stack; a call recurses only while fewer  *)
(* than MaxDepth calls are running.                                        *)

MaxLines == 4
MaxDepth == 6

(* The arguments lines: up to MaxLines different plain lines, in          *)
(* the order of the catalog or in the reverse order.                       *)
RoInputs ==
    UNION { { Ascending(T), Reverse(Ascending(T)) } :
            T \in { U \in SUBSET (1..Len(PlainLines)) : Cardinality(U) <= MaxLines } }

\* the first are the defaults of the declaration, 25*M_PI/180, 0.1, 0.5
RoConfigs ==
    { [ang |-> <<5, 36>>, iou |-> <<1, 10>>, pro |-> <<1, 2>>],
      [ang |-> <<5, 36>>, iou |-> <<1, 10>>, pro |-> <<7, 10>>],
      [ang |-> <<5, 36>>, iou |-> RZero, pro |-> RZero] }

RoInit ==
    /\ ro_pc = "call"
    /\ ro_lines \in RoInputs
    /\ ro_cfg \in RoConfigs
    /\ ro_stack = <<>>
    /\ ro_num_joins = 0
    /\ ro_line_groups = <<>>
    /\ ro_join_group_score = <<>>
    /\ ro_reading_order = <<>>

RoTop == ro_stack[Len(ro_stack)]

\* getTextLinesReadingOrder on no lines
RoEmpty ==
    /\ ro_pc = "call"
    /\ Len(ro_lines) = 0
    /\ ro_pc' = "done"
    /\ ro_reading_order' = <<>>
    /\ UNCHANGED <<ro_lines, ro_cfg, ro_stack, ro_num_joins, ro_line_groups,
                   ro_join_group_score>>
    /\ UNCHANGED <<spVars, bbVars, stVars, ovVars, crVars, gmVars, fnVars, idVars, pgVars, prVars>>

(* getTextLinesReadingOrder calls testTextLineContinuation, which reads    *)
(* the points and runs its pair loop.                                      *)
RoCall ==
    /\ ro_pc = "call"
    /\ Len(ro_lines) > 0
    /\ IF \E n \in 1..Len(ro_lines) :
              \/ Len(LineCatalog[ro_lines[n]].baseline) # 2
              \/ Len(LineCatalog[ro_lines[n]].coords) # 4
       THEN ro_pc' = "failed" /\ ro_stack' = ro_stack
       ELSE ro_pc' = "groups" /\ ro_stack' = <<Frame(ro_lines, ro_cfg)>>
    /\ UNCHANGED <<ro_lines, ro_cfg, ro_num_joins, ro_line_groups,
                   ro_join_group_score, ro_reading_order>>
    /\ UNCHANGED <<spVars, bbVars, stVars, ovVars, crVars, gmVars, fnVars, idVars, pgVars, prVars>>

\* the group loop at a group with a single score
RoGroupSkip ==
    /\ ro_pc = "groups"
    /\ RoTop.k <= Len(RoTop.g.groups)
    /\ Len(RoTop.g.scores[RoTop.k]) <= 1
    /\ ro_stack' = [ro_stack EXCEPT ![Len(ro_stack)].k = @ + 1]
    /\ UNCHANGED <<ro_pc, ro_lines, ro_cfg, ro_num_joins, ro_line_groups,
                   ro_join_group_score, ro_reading_order>>
    /\ UNCHANGED <<spVars, bbVars, stVars, ovVars, crVars, gmVars, fnVars, idVars, pgVars, prVars>>

\* the group loop at a group without high overlap: sorted and scored
RoGroupSort ==
    /\ ro_pc = "groups"
    /\ RoTop.k <= Len(RoTop.g.groups)
    /\ Len(RoTop.g.scores[RoTop.k]) > 1
    /\ \E idx \in IterationOrders(RoTop.g.order[RoTop.k]) :
          /\ ~GroupRecurses(RoTop, idx)
          /\ \E sidx \in SortOrders(GroupHpos(RoTop, idx), 1..Len(idx),
                                    RoTop.g.direct[RoTop.k] = 1) :
                ro_stack' = [ro_stack EXCEPT
                                ![Len(ro_stack)] = SortedGroup(RoTop, idx, sidx)]
    /\ UNCHANGED <<ro_pc, ro_lines, ro_cfg, ro_num_joins, ro_line_groups,
                   ro_join_group_score, ro_reading_order>>
    /\ UNCHANGED <<spVars, bbVars, stVars, ovVars, crVars, gmVars, fnVars, idVars, pgVars, prVars>>

(* The group loop at a group with high overlap: the recursive call, up to  *)
(* the end of its pair loop.                                               *)
RoGroupRecurse ==
    /\ ro_pc = "groups"
    /\ RoTop.k <= Len(RoTop.g.groups)
    /\ Len(RoTop.g.scores[RoTop.k]) > 1
    /\ Len(ro_stack) < MaxDepth
    /\ \E idx \in IterationOrders(RoTop.g.order[RoTop.k]) :
          /\ GroupRecurses(RoTop, idx)
          /\ ro_stack' = Append([ro_stack EXCEPT ![Len(ro_stack)].idx = idx],
                                RecurseFrame(RoTop, idx))
    /\ UNCHANGED <<ro_pc, ro_lines, ro_cfg, ro_num_joins, ro_line_groups,
                   ro_join_group_score, ro_reading_order>>
    /\ UNCHANGED <<spVars, bbVars, stVars, ovVars, crVars, gmVars, fnVars, idVars, pgVars, prVars>>

\* a recursive call returns and its caller drops or splices
RoReturnNested ==
    /\ ro_pc = "groups"
    /\ Len(ro_stack) > 1
    /\ RoTop.k > Len(RoTop.g.groups)
    /\ ro_stack' = [SubSeq(ro_stack, 1, Len(ro_stack) - 1) EXCEPT
                       ![Len(ro_stack) - 1] =
                           AfterRecursion(@, OutOrder(RoTop), OutScore(RoTop))]
    /\ UNCHANGED <<ro_pc, ro_lines, ro_cfg, ro_num_joins, ro_line_groups,
                   ro_join_group_score, ro_reading_order>>
    /\ UNCHANGED <<spVars, bbVars, stVars, ovVars, crVars, gmVars, fnVars, idVars, pgVars, prVars>>

\* the outermost call returns to getTextLinesReadingOrder
RoReturnTop ==
    /\ ro_pc = "groups"
    /\ Len(ro_stack) = 1
    /\ RoTop.k > Len(RoTop.g.groups)
    /\ ro_pc' = "phaseB"
    /\ ro_num_joins' = Len(RoTop.g.groups)
    /\ ro_line_groups' = OutOrder(RoTop)
    /\ ro_join_group_score' = OutScore(RoTop)
    /\ ro_stack' = <<>>
    /\ UNCHANGED <<ro_lines, ro_cfg, ro_reading_order>>
    /\ UNCHANGED <<spVars, bbVars, stVars, ovVars, crVars, gmVars, fnVars, idVars, pgVars, prVars>>

\* getTextLinesReadingOrder after the call, to its return
RoPhaseB ==
    /\ ro_pc = "phaseB"
    /\ \E line_groups \in { WithSingletons(ro_line_groups, ro_num_joins,
                                           Len(ro_lines), 0) } :
       \E sidx \in SortOrders(Vpos(ro_lines, line_groups),
                              1..Len(line_groups), TRUE) :
          ro_reading_order' = Populate(line_groups, sidx, 1)
    /\ ro_pc' = "done"
    /\ UNCHANGED <<ro_lines, ro_cfg, ro_stack, ro_num_joins, ro_line_groups,
                   ro_join_group_score>>
    /\ UNCHANGED <<spVars, bbVars, stVars, ovVars, crVars, gmVars, fnVars, idVars, pgVars, prVars>>

RoNext ==
    \/ RoEmpty
    \/ RoCall
    \/ RoGroupSkip
    \/ RoGroupSort
    \/ RoGroupRecurse
    \/ RoReturnNested
    \/ RoReturnTop
    \/ RoPhaseB

RoStart == SpIdle /\ BbIdle /\ StIdle /\ RoInit /\ OvIdle /\ CrIdle /\ GmIdle
    /\ FnIdle /\ IdIdle /\ PgIdle /\ PrIdle

SpecReadingOrder == RoStart /\ [][RoNext]_vars

(* SpecLineOrders: getTextLinesReadingOrder on no line, on plain lines     *)
(* followed by one of the other lines, and on the lines 1, 8, 9, 10 given  *)
(* in every order.                                                         *)
OtherInputs ==
    {<<>>}
    \cup {front \o <<other>> :
            front \in {<<>>, <<1>>, <<1, 2>>, <<1, 2, 3>>, <<1, 2, 3, 4>>},
            other \in (Len(PlainLines) + 1)..Len(LineCatalog)}
    \cup {order \in [1..4 -> {1, 8, 9, 10}] : \A i, j \in 1..4 : i # j => order[i] # order[j]}

RoOtherInit ==
    /\ ro_pc = "call"
    /\ ro_lines \in OtherInputs
    /\ ro_cfg \in RoConfigs
    /\ ro_stack = <<>>
    /\ ro_num_joins = 0
    /\ ro_line_groups = <<>>
    /\ ro_join_group_score = <<>>
    /\ ro_reading_order = <<>>

RoOtherStart == SpIdle /\ BbIdle /\ StIdle /\ RoOtherInit /\ OvIdle /\ CrIdle /\ GmIdle
    /\ FnIdle /\ IdIdle /\ PgIdle /\ PrIdle

SpecLineOrders == RoOtherStart /\ [][RoNext]_vars

-----------------------------------------------------------------------------
\* the reading order returned holds every index of the argument once
IsPermutation ==
    /\ Len(ro_reading_order) = Len(ro_lines)
    /\ \A n \in 0..(Len(ro_lines) - 1) :
          Cardinality({i \in 1..Len(ro_reading_order) : ro_reading_order[i] = n}) = 1

(* C1: for a non-empty list of N lines with 2-point baselines and 4-point  *)
(* coords, the reading order getTextLinesReadingOrder returns has length N *)
(* and holds every index 0..N-1 exactly once, whatever groups Phase A      *)
(* produced.                                                               *)
C1_ReadingOrderIsPermutation ==
    (ro_pc = "done" /\ Len(ro_lines) > 0) => IsPermutation

(* C2: every recursive call of testTextLineContinuation is made on         *)
(* strictly fewer lines than the call that makes it received.              *)
C2_RecursiveCallsShrink ==
    \A d \in 2..Len(ro_stack) :
        Len(ro_stack[d].lines) < Len(ro_stack[d - 1].lines)

(* The lines la and lb lie on one horizontal axis, left to right, lb       *)
(* starting to the right of the end of la, with the same stripe.           *)
OnOneAxis(la, lb) ==
    /\ la.baseline[1][2] = la.baseline[2][2]
    /\ lb.baseline[1][2] = lb.baseline[2][2]
    /\ la.baseline[1][2] = lb.baseline[1][2]
    /\ RLt(la.baseline[1][1], la.baseline[2][1])
    /\ RLt(la.baseline[2][1], lb.baseline[1][1])
    /\ RLt(lb.baseline[1][1], lb.baseline[2][1])
    /\ la.coords[1][2] = lb.coords[1][2]
    /\ la.coords[4][2] = lb.coords[4][2]

(* C3: two lines a, b on one horizontal axis with the same stripe, b       *)
(* starting right of the end of a, given alone in either order, come out   *)
(* of Phase A as exactly one group, ordered a then b, whose score is not   *)
(* below the configured minimum.                                           *)
C3_ColinearPairJoined ==
    \A a, b \in 1..Len(LineCatalog) :
        ( /\ ro_pc \in {"phaseB", "done"}
          /\ OnOneAxis(LineCatalog[a], LineCatalog[b])
          /\ ro_lines \in {<<a, b>>, <<b, a>>} ) =>
            /\ ro_num_joins = 1
            /\ ro_line_groups = << IF ro_lines = <<a, b>> THEN <<0, 1>> ELSE <<1, 0>> >>
            /\ Len(ro_join_group_score) = 1
            /\ RGe(ro_join_group_score[1], ro_cfg.pro)

\* B (105,10)-(200,10) given before A (0,10)-(100,10): one group, A then B
C3_Witness ==
    /\ ro_pc = "done"
    /\ ro_lines = <<2, 1>>
    /\ ro_line_groups = <<<<1, 0>>>>
    /\ ro_join_group_score = <<ROne>>

\* the midpoint of the baseline of line n (0-based) of the argument
MidPoint(n) ==
    PScale(PAdd(LineCatalog[ro_lines[n + 1]].baseline[1],
                LineCatalog[ro_lines[n + 1]].baseline[2]), <<1, 2>>)

(* its projection onto the axis perpendicular to the length-weighted       *)
(* direction of all the baselines                                          *)
MidProjection(n) ==
    project_2d_to_1d(<<MidPoint(n)>>, Vert(WeightedDir(AllBaselines(ro_lines))))[1]

(* C4: when Phase A yields no join group, the reading order is the line    *)
(* indices in ascending order of the projection of the baseline midpoints  *)
(* onto the axis perpendicular to the global baseline direction; the       *)
(* left-to-right horizontal lines of the catalog come out top to bottom,   *)
(* and the lines at y = 10, 50, 90 given in that order come out [0,1,2].   *)
C4_NoGroupsTopToBottom ==
    (ro_pc = "done" /\ Len(ro_lines) > 0 /\ ro_line_groups = <<>>) =>
        /\ IsPermutation
        /\ \A i, j \in 1..Len(ro_reading_order) :
              i < j => /\ RLe(MidProjection(ro_reading_order[i]),
                              MidProjection(ro_reading_order[j]))
                       /\ RLe(MidPoint(ro_reading_order[i])[2],
                              MidPoint(ro_reading_order[j])[2])
        /\ ro_lines = <<1, 5, 6>> => ro_reading_order = <<0, 1, 2>>

\* the lines at y = 90, 50, 10 given in that order come out bottom line last
C4_Witness ==
    /\ ro_pc = "done"
    /\ ro_lines = <<6, 5, 1>>
    /\ ro_line_groups = <<>>
    /\ ro_reading_order = <<2, 1, 0>>

(* C5: the integer testTextLineContinuation returns is the number of       *)
(* groups it writes to _line_group_order, and _line_group_score has that   *)
(* length too.                                                             *)
C5_ReturnCountsWrittenGroups ==
    (ro_pc \in {"phaseB", "done"} /\ Len(ro_lines) > 0) =>
        /\ ro_num_joins = Len(ro_line_groups)
        /\ Len(ro_join_group_score) = Len(ro_line_groups)

-----------------------------------------------------------------------------
(* Overlap scoring.  Coords are rings of integer points and a Baseline is  *)
(* a polyline; the documents of this part hold axis-aligned boxes and      *)
(* horizontal baselines, for which the polygon provider's Intersection is  *)
(* the intersection of the envelopes.  What the provider reports for an    *)
(* empty intersection (empty_type) is its choice.                          *)

\* ring of the box xmin,ymin .. xmin+width,ymin+height, in the order written
setCoordsBBox(xmin, ymin, width, height) ==
    <<<<xmin, ymin>>, <<xmin + width, ymin>>,
      <<xmin + width, ymin + height>>, <<xmin, ymin + height>>>>

\* a TextLine with Coords the box x0,y0 .. x1,y1 and its lower edge as Baseline
TextLine(x0, y0, x1, y1) ==
    [coords |-> setCoordsBBox(x0, y0, x1 - x0, y1 - y0),
     baseline |-> <<<<x0, y1>>, <<x1, y1>>>>]

\* <<MinX, MinY, MaxX, MaxY>> of a geometry
Envelope(g) ==
    LET xs == {g[i][1] : i \in DOMAIN g}
        ys == {g[i][2] : i \in DOMAIN g}
    IN  <<CHOOSE m \in xs : \A x \in xs : m <= x, CHOOSE m \in ys : \A y \in ys : m <= y,
          CHOOSE m \in xs : \A x \in xs : m >= x, CHOOSE m \in ys : \A y \in ys : m >= y>>

\* area of a closed ring (shoelace), n = number of edges summed so far
RECURSIVE Shoelace(_, _)
Shoelace(ring, n) ==
    IF n = 0 THEN 0
    ELSE Shoelace(ring, n - 1)
         + ring[n][1] * ring[(n % Len(ring)) + 1][2]
         - ring[(n % Len(ring)) + 1][1] * ring[n][2]

get_Area(poly) == Abs(Shoelace(poly, Len(poly))) \div 2

\* length of a polyline of axis-parallel segments
RECURSIVE get_Length(_)
get_Length(line) ==
    IF Len(line) < 2 THEN 0
    ELSE Abs(line[2][1] - line[1][1]) + Abs(line[2][2] - line[1][2]) + get_Length(Tail(line))

\* OGRGeometry::Intersection: the geometry type of the result and its measures
Intersection(g1, g2, empty_type) ==
    LET e1 == Envelope(g1)
        e2 == Envelope(g2)
        w == (IF e1[3] < e2[3] THEN e1[3] ELSE e2[3]) - (IF e1[1] > e2[1] THEN e1[1] ELSE e2[1])
        h == (IF e1[4] < e2[4] THEN e1[4] ELSE e2[4]) - (IF e1[2] > e2[2] THEN e1[2] ELSE e2[2])
    IN  IF w < 0 \/ h < 0 THEN [type |-> empty_type, area |-> 0, length |-> 0]
        ELSE IF w > 0 /\ h > 0 THEN [type |-> "wkbPolygon", area |-> w * h, length |-> 2 * (w + h)]
        ELSE IF w > 0 \/ h > 0 THEN [type |-> "wkbLineString", area |-> 0, length |-> w + h]
        ELSE [type |-> "wkbPoint", area |-> 0, length |-> 0]

computeIoUNoUnion(poly1, poly2, empty_type) ==
    LET isect_geom == Intersection(poly1, poly2, empty_type)
    IN  IF isect_geom.type \notin {"wkbPolygon", "wkbMultiPolygon", "wkbGeometryCollection"}
        THEN RZero
        ELSE IF isect_geom.area # 0
        THEN Rat(isect_geom.area, get_Area(poly1) + get_Area(poly2))
        ELSE RZero

computeIoU(poly1, poly2, empty_type) ==
    LET isect_geom == Intersection(poly1, poly2, empty_type)
    IN  IF isect_geom.type \notin {"wkbPolygon", "wkbMultiPolygon", "wkbGeometryCollection"}
        THEN RZero
        ELSE IF isect_geom.area # 0
        THEN Rat(isect_geom.area, get_Area(poly1) + get_Area(poly2) - isect_geom.area)
        ELSE RZero

computeIoUs(poly, polys, empty_type) ==
    [n \in DOMAIN polys |-> computeIoU(poly, polys[n], empty_type)]

RECURSIVE SumAreas(_, _, _)
SumAreas(isects, reg_areas, n) ==
    IF n = 0 THEN 0
    ELSE SumAreas(isects, reg_areas, n - 1) + (IF isects[n] > 0 THEN reg_areas[n] ELSE 0)

\* the weighting done whatever the number of regions that intersect
WeightedAlways(isects, total, reg_areas) ==
    [n \in DOMAIN isects |->
        IF isects[n] <= 0 THEN RZero
        ELSE RMul(Rat(isects[n], total),
                  RSub(ROne, Rat(reg_areas[n], SumAreas(isects, reg_areas, Len(isects)))))]

\* the scores of compute*IntersectionsWeightedByArea from the measures isects of
\* the intersections, the measure total of the line and the region areas
WeightedByArea(isects, total, reg_areas) ==
    LET isect_count == Cardinality({n \in DOMAIN isects : isects[n] > 0})
        sum_areas == SumAreas(isects, reg_areas, Len(isects))
    IN  [n \in DOMAIN isects |->
            IF isects[n] <= 0 THEN RZero
            ELSE IF isect_count < 2 THEN Rat(isects[n], total)
            ELSE RMul(Rat(isects[n], total), RSub(ROne, Rat(reg_areas[n], sum_areas)))]

computeCoordsIntersectionsWeightedByArea(line, reg_polys, empty_type) ==
    WeightedByArea([n \in DOMAIN reg_polys |-> Intersection(reg_polys[n], line.coords, empty_type).area],
                   get_Area(line.coords), [n \in DOMAIN reg_polys |-> get_Area(reg_polys[n])])

computeBaselineIntersectionsWeightedByArea(line, reg_polys, empty_type) ==
    WeightedByArea([n \in DOMAIN reg_polys |-> Intersection(reg_polys[n], line.baseline, empty_type).length],
                   get_Length(line.baseline), [n \in DOMAIN reg_polys |-> get_Area(reg_polys[n])])

\* the vector overlap of copyTextLinesAssignByOverlap for one line
Overlap(line, reg_polys, overlap_type, overlap_fact, empty_type) ==
    CASE overlap_type = "PAGEXML_OVERLAP_COORDS_IOU" ->
            computeIoUs(line.coords, reg_polys, empty_type)
      [] overlap_type = "PAGEXML_OVERLAP_COORDS_IWA" ->
            computeCoordsIntersectionsWeightedByArea(line, reg_polys, empty_type)
      [] overlap_type = "PAGEXML_OVERLAP_BASELINE_IWA" ->
            computeBaselineIntersectionsWeightedByArea(line, reg_polys, empty_type)
      [] overlap_type = "PAGEXML_OVERLAP_COORDS_BASELINE_IWA" ->
            LET overlap == computeBaselineIntersectionsWeightedByArea(line, reg_polys, empty_type)
                overlap2 == computeCoordsIntersectionsWeightedByArea(line, reg_polys, empty_type)
            IN  [m \in DOMAIN overlap |->
                    RAdd(RMul(overlap_fact, overlap[m]), RMul(RSub(ROne, overlap_fact), overlap2[m]))]

\* a geometry that is not of the type its cast assumes reaches get_Area or
\* get_Length in the *WeightedByArea functions, which do not test the type
UntypedCast(line, reg_polys, overlap_type, empty_type) ==
    \/ /\ overlap_type \in {"PAGEXML_OVERLAP_COORDS_IWA", "PAGEXML_OVERLAP_COORDS_BASELINE_IWA"}
       /\ \E n \in DOMAIN reg_polys :
            Intersection(reg_polys[n], line.coords, empty_type).type \in {"wkbLineString", "wkbPoint"}
    \/ /\ overlap_type \in {"PAGEXML_OVERLAP_BASELINE_IWA", "PAGEXML_OVERLAP_COORDS_BASELINE_IWA"}
       /\ \E n \in DOMAIN reg_polys :
            Intersection(reg_polys[n], line.baseline, empty_type).type = "wkbPoint"

min_element(overlap) ==
    CHOOSE n \in DOMAIN overlap :
        /\ \A m \in DOMAIN overlap : ~RLt(overlap[m], overlap[n])
        /\ \A m \in 1..(n - 1) : RLt(overlap[n], overlap[m])

\* std::max_element: the first position that holds the largest value
max_element(overlap) ==
    CHOOSE n \in DOMAIN overlap :
        /\ \A m \in DOMAIN overlap : ~RLt(overlap[n], overlap[m])
        /\ \A m \in 1..(n - 1) : RLt(overlap[m], overlap[n])

-----------------------------------------------------------------------------
(* Specification SpecOverlap: one call of computeIoU, or one call of       *)
(* copyTextLinesAssignByOverlap taken page by page and line by line.       *)

MaxX == 5
MaxY == 1

\* the boxes x0,y0 .. x1,y1 of the grid, as <<x0, y0, x1, y1>>
Boxes ==
    {b \in (0..MaxX) \X (0..MaxY) \X (0..MaxX) \X (0..MaxY) : b[1] < b[3] /\ b[2] < b[4]}

BoxRing(b) == setCoordsBBox(b[1], b[2], b[3] - b[1], b[4] - b[2])

\* no common point / g1 within g2, by the envelopes
Disjoint(g1, g2) ==
    LET e1 == Envelope(g1)
        e2 == Envelope(g2)
    IN  e1[3] < e2[1] \/ e2[3] < e1[1] \/ e1[4] < e2[2] \/ e2[4] < e1[2]

Inside(g1, g2) ==
    LET e1 == Envelope(g1)
        e2 == Envelope(g2)
    IN  e2[1] <= e1[1] /\ e1[3] <= e2[3] /\ e2[2] <= e1[2] /\ e1[4] <= e2[4]

\* the Coords of the whole-page region of a page imageWidth x imageHeight
PageRing(page) == setCoordsBBox(0, 0, page.imageWidth - 1, page.imageHeight - 1)

TextRegion(k, b) == [id |-> <<"r", k>>, coords |-> BoxRing(b), lines |-> <<>>]

PageTo(size, boxes) ==
    [imageWidth |-> size[1], imageHeight |-> size[2],
     regs |-> [k \in DOMAIN boxes |-> TextRegion(k, boxes[k])]]

PageFrom(size, boxes) ==
    [imageWidth |-> size[1], imageHeight |-> size[2],
     lines |-> [k \in DOMAIN boxes |-> TextLine(boxes[k][1], boxes[k][2], boxes[k][3], boxes[k][4])]]

IoUInputs ==
    {[op |-> "computeIoU", poly1 |-> BoxRing(p), poly2 |-> BoxRing(q), empty_type |-> t] :
        p \in Boxes, q \in Boxes,
        t \in {"wkbPolygon", "wkbGeometryCollection", "wkbLineString", "wkbPoint"}}

CopyInput(from, to, overlap_type, nothrow) ==
    [op |-> "copy", from |-> from, to |-> to, overlap_type |-> overlap_type,
     overlap_fact |-> <<1, 2>>, empty_type |-> "wkbGeometryCollection", nothrow |-> nothrow]

OverlapTypes ==
    {"PAGEXML_OVERLAP_COORDS_IOU", "PAGEXML_OVERLAP_COORDS_IWA",
     "PAGEXML_OVERLAP_BASELINE_IWA", "PAGEXML_OVERLAP_COORDS_BASELINE_IWA"}

\* one page, two disjoint regions a and b, one line l within a or within b
TwoRegionCases ==
    {c \in Boxes \X Boxes \X Boxes :
        /\ \/ c[1][3] < c[2][1] \/ c[2][3] < c[1][1] \/ c[1][4] < c[2][2] \/ c[2][4] < c[1][2]
        /\ \E r \in 1..2 : /\ c[r][1] <= c[3][1] /\ c[3][3] <= c[r][3]
                            /\ c[r][2] <= c[3][2] /\ c[3][4] <= c[r][4]}

TwoRegionInputs ==
    {CopyInput(<<PageFrom(size, <<c[3]>>)>>, <<PageTo(size, <<c[1], c[2]>>)>>, t, FALSE) :
        c \in TwoRegionCases, size \in {<<3, 2>>, <<MaxX + 1, MaxY + 1>>}, t \in OverlapTypes}

\* documents of one or two pages over a few regions and lines
SomePagesTo ==
    {PageTo(size, boxes) :
        size \in {<<4, 3>>, <<3, 3>>},
        boxes \in {<<>>, <<<<0, 0, 1, 2>>>>, <<<<0, 0, 1, 2>>, <<2, 0, 3, 2>>>>, <<<<0, 0, 3, 2>>>>}}

SomePagesFrom ==
    {PageFrom(size, boxes) :
        size \in {<<4, 3>>, <<4, 2>>},
        boxes \in {<<>>, <<<<0, 0, 1, 1>>>>, <<<<4, 0, 5, 1>>>>, <<<<0, 1, 3, 2>>, <<4, 0, 5, 1>>>>,
                   <<<<1, 0, 2, 1>>, <<2, 1, 3, 2>>>>}}

\* the documents of one page of pages, and those with a page of more before it
Documents(pages, more) ==
    {<<p>> : p \in pages} \cup {<<q, p>> : q \in more, p \in pages}

DocumentInputs ==
    {CopyInput(from, to, t, nothrow) :
        from \in Documents(SomePagesFrom, {PageFrom(<<4, 3>>, <<>>), PageFrom(<<4, 3>>, <<<<2, 0, 3, 1>>>>)}),
        to \in Documents(SomePagesTo, {PageTo(<<4, 3>>, <<>>), PageTo(<<4, 2>>, <<>>)}),
        t \in OverlapTypes, nothrow \in BOOLEAN}

OvInit ==
    /\ ov_in \in IoUInputs \cup TwoRegionInputs \cup DocumentInputs
    /\ ov_pc = "ready"
    /\ ov_to = IF ov_in.op = "copy" THEN ov_in.to ELSE <<>>
    /\ ov_npage = 0 /\ ov_n = 0 /\ ov_pageregadded = FALSE /\ ov_linesCopied = 0
    /\ ov_ret = -1 /\ ov_err = "" /\ ov_iou = <<>>

\* throw_runtime_error( msg ); return 0;
OvThrow(msg) ==
    /\ ov_err' = msg
    /\ ov_pc' = IF ov_in.nothrow THEN "returned" ELSE "thrown"
    /\ ov_ret' = IF ov_in.nothrow THEN 0 ELSE -1

OvComputeIoU ==
    /\ ov_pc = "ready" /\ ov_in.op = "computeIoU"
    /\ ov_iou' = computeIoU(ov_in.poly1, ov_in.poly2, ov_in.empty_type)
    /\ ov_pc' = "returned"
    /\ UNCHANGED <<ov_in, ov_to, ov_npage, ov_n, ov_pageregadded, ov_linesCopied, ov_ret, ov_err>>
    /\ UNCHANGED <<spVars, bbVars, stVars, roVars, crVars, gmVars, fnVars, idVars, pgVars, prVars>>

OvCall ==
    /\ ov_pc = "ready" /\ ov_in.op = "copy"
    /\ Len(ov_in.from) = Len(ov_in.to)
    /\ ov_pc' = "page" /\ ov_npage' = 1
    /\ UNCHANGED <<ov_in, ov_to, ov_n, ov_pageregadded, ov_linesCopied, ov_ret, ov_err, ov_iou>>
    /\ UNCHANGED <<spVars, bbVars, stVars, roVars, crVars, gmVars, fnVars, idVars, pgVars, prVars>>

OvPageCountError ==
    /\ ov_pc = "ready" /\ ov_in.op = "copy"
    /\ Len(ov_in.from) # Len(ov_in.to)
    /\ OvThrow("PageXML objects must have the same number of pages")
    /\ UNCHANGED <<ov_in, ov_to, ov_npage, ov_n, ov_pageregadded, ov_linesCopied, ov_iou>>
    /\ UNCHANGED <<spVars, bbVars, stVars, roVars, crVars, gmVars, fnVars, idVars, pgVars, prVars>>

OvPageSkip ==
    /\ ov_pc = "page" /\ ov_npage <= Len(ov_in.from)
    /\ ov_in.from[ov_npage].lines = <<>>
    /\ ov_npage' = ov_npage + 1
    /\ UNCHANGED <<ov_pc, ov_in, ov_to, ov_n, ov_pageregadded, ov_linesCopied, ov_ret, ov_err, ov_iou>>
    /\ UNCHANGED <<spVars, bbVars, stVars, roVars, crVars, gmVars, fnVars, idVars, pgVars, prVars>>

SameSize(p, q) == p.imageWidth = q.imageWidth /\ p.imageHeight = q.imageHeight

OvSizeError ==
    /\ ov_pc = "page" /\ ov_npage <= Len(ov_in.from)
    /\ ov_in.from[ov_npage].lines # <<>>
    /\ ~SameSize(ov_to[ov_npage], ov_in.from[ov_npage])
    /\ OvThrow("image size differs between input PageXMLs")
    /\ UNCHANGED <<ov_in, ov_to, ov_npage, ov_n, ov_pageregadded, ov_linesCopied, ov_iou>>
    /\ UNCHANGED <<spVars, bbVars, stVars, roVars, crVars, gmVars, fnVars, idVars, pgVars, prVars>>

\* the positions in regs of the TextRegions whose Coords are the page ring
PageRegs(page) == {k \in DOMAIN page.regs : page.regs[k].coords = PageRing(page)}

OvPageBegin ==
    /\ ov_pc = "page" /\ ov_npage <= Len(ov_in.from)
    /\ ov_in.from[ov_npage].lines # <<>>
    /\ SameSize(ov_to[ov_npage], ov_in.from[ov_npage])
    /\ ov_pageregadded' = (PageRegs(ov_to[ov_npage]) = {})
    /\ ov_to' = IF PageRegs(ov_to[ov_npage]) # {} THEN ov_to
                ELSE [ov_to EXCEPT ![ov_npage].regs =
                        Append(@, [id |-> <<"page", ov_npage>>,
                                   coords |-> PageRing(ov_to[ov_npage]), lines |-> <<>>])]
    /\ ov_pc' = "line" /\ ov_n' = 1
    /\ UNCHANGED <<ov_in, ov_npage, ov_linesCopied, ov_ret, ov_err, ov_iou>>
    /\ UNCHANGED <<spVars, bbVars, stVars, roVars, crVars, gmVars, fnVars, idVars, pgVars, prVars>>

\* the vector overlap of line n of source page npage against the regions of to
LineOverlap(in, to, npage, n) ==
    Overlap(in.from[npage].lines[n], [k \in DOMAIN to[npage].regs |-> to[npage].regs[k].coords],
            in.overlap_type, in.overlap_fact, in.empty_type)

\* xmlAddChild(regsTo[max_idx],lineclone), after the message when nothing overlaps
OvLineAttach ==
    /\ ov_pc = "line" /\ ov_n <= Len(ov_in.from[ov_npage].lines)
    /\ \E overlap \in {LineOverlap(ov_in, ov_to, ov_npage, ov_n)} :
         /\ overlap[max_element(overlap)] # RZero \/ ov_in.nothrow
         /\ ov_err' = IF overlap[max_element(overlap)] = RZero
                      THEN "TextLine does not overlap with any region" ELSE ov_err
         /\ ov_to' = [ov_to EXCEPT ![ov_npage].regs[max_element(overlap)].lines =
                            Append(@, <<ov_npage, ov_n>>)]
    /\ ov_n' = ov_n + 1
    /\ UNCHANGED <<ov_pc, ov_in, ov_npage, ov_pageregadded, ov_linesCopied, ov_ret, ov_iou>>
    /\ UNCHANGED <<spVars, bbVars, stVars, roVars, crVars, gmVars, fnVars, idVars, pgVars, prVars>>

OvLineNoOverlap ==
    /\ ov_pc = "line" /\ ov_n <= Len(ov_in.from[ov_npage].lines)
    /\ ~ov_in.nothrow
    /\ \E overlap \in {LineOverlap(ov_in, ov_to, ov_npage, ov_n)} :
         overlap[max_element(overlap)] = RZero
    /\ ov_err' = "TextLine does not overlap with any region"
    /\ ov_pc' = "thrown"
    /\ UNCHANGED <<ov_in, ov_to, ov_npage, ov_n, ov_pageregadded, ov_linesCopied, ov_ret, ov_iou>>
    /\ UNCHANGED <<spVars, bbVars, stVars, roVars, crVars, gmVars, fnVars, idVars, pgVars, prVars>>

\* get_Area / get_Length called through a pointer of the wrong type
OvCrash ==
    /\ ov_pc = "line" /\ ov_n <= Len(ov_in.from[ov_npage].lines)
    /\ UntypedCast(ov_in.from[ov_npage].lines[ov_n],
                   [k \in DOMAIN ov_to[ov_npage].regs |-> ov_to[ov_npage].regs[k].coords],
                   ov_in.overlap_type, ov_in.empty_type)
    /\ ov_pc' = "crash"
    /\ UNCHANGED <<ov_in, ov_to, ov_npage, ov_n, ov_pageregadded, ov_linesCopied, ov_ret, ov_err, ov_iou>>
    /\ UNCHANGED <<spVars, bbVars, stVars, roVars, crVars, gmVars, fnVars, idVars, pgVars, prVars>>

\* if ( pageregadded && count("_:TextLine",pageRegTo) == 0 ) rmElem(pageRegTo);
RemoveUnusedPageRegion(page, pageregadded) ==
    IF pageregadded /\ page.regs[Len(page.regs)].lines = <<>>
    THEN SubSeq(page.regs, 1, Len(page.regs) - 1)
    ELSE page.regs

OvPageEnd ==
    /\ ov_pc = "line" /\ ov_n > Len(ov_in.from[ov_npage].lines)
    /\ ov_to' = [ov_to EXCEPT ![ov_npage].regs = RemoveUnusedPageRegion(ov_to[ov_npage], ov_pageregadded)]
    /\ ov_linesCopied' = ov_linesCopied + Len(ov_in.from[ov_npage].lines)
    /\ ov_npage' = ov_npage + 1
    /\ ov_n' = 0
    /\ ov_pc' = "page"
    /\ UNCHANGED <<ov_in, ov_pageregadded, ov_ret, ov_err, ov_iou>>
    /\ UNCHANGED <<spVars, bbVars, stVars, roVars, crVars, gmVars, fnVars, idVars, pgVars, prVars>>

OvReturn ==
    /\ ov_pc = "page" /\ ov_npage > Len(ov_in.from)
    /\ ov_ret' = ov_linesCopied
    /\ ov_pc' = "returned"
    /\ UNCHANGED <<ov_in, ov_to, ov_npage, ov_n, ov_pageregadded, ov_linesCopied, ov_err, ov_iou>>
    /\ UNCHANGED <<spVars, bbVars, stVars, roVars, crVars, gmVars, fnVars, idVars, pgVars, prVars>>

OvNext ==
    \/ OvComputeIoU
    \/ OvCall
    \/ OvPageCountError
    \/ OvPageSkip
    \/ OvSizeError
    \/ OvPageBegin
    \/ OvLineAttach
    \/ OvLineNoOverlap
    \/ OvCrash
    \/ OvPageEnd
    \/ OvReturn

OvStart == SpIdle /\ BbIdle /\ StIdle /\ RoIdle /\ OvInit /\ CrIdle /\ GmIdle
    /\ FnIdle /\ IdIdle /\ PgIdle /\ PrIdle

SpecOverlap == OvStart /\ [][OvNext]_vars

-----------------------------------------------------------------------------
(* Claims on overlap scoring and copyTextLinesAssignByOverlap.             *)

\* C11: computeIoU of a polygon of positive area with itself is 1, and
\* computeIoU of two disjoint polygons is 0, whatever geometry type the
\* provider gives to the empty intersection.
C11_IoUSelfOneDisjointZero ==
    (ov_pc = "returned" /\ ov_in.op = "computeIoU") =>
        /\ (ov_in.poly1 = ov_in.poly2 => ov_iou = ROne)
        /\ (Disjoint(ov_in.poly1, ov_in.poly2) => ov_iou = RZero)

\* C11 happens: computeIoU has returned 1 for a polygon against itself
C11_Witness ==
    /\ ov_pc = "returned" /\ ov_in.op = "computeIoU"
    /\ ov_in.poly1 = ov_in.poly2 /\ get_Area(ov_in.poly1) > 0 /\ ov_iou = ROne

\* line k of source page p has been through the loop body of the line loop
Handled(p, k) ==
    /\ p \in DOMAIN ov_in.from /\ k \in DOMAIN ov_in.from[p].lines
    /\ ov_npage > p \/ (ov_npage = p /\ ov_n > k)

\* the positions of the regions of destination page p that hold the clone of line k
ClonedInto(p, k) ==
    {r \in DOMAIN ov_to[p].regs :
        \E i \in DOMAIN ov_to[p].regs[r].lines : ov_to[p].regs[r].lines[i] = <<p, k>>}

\* destination page p had the two disjoint regions 1 and 2, and source line k
\* has its Coords and Baseline within region r
WithinOneOfTwo(p, k, r) ==
    /\ Len(ov_in.to[p].regs) = 2 /\ r \in 1..2
    /\ Disjoint(ov_in.to[p].regs[1].coords, ov_in.to[p].regs[2].coords)
    /\ Inside(ov_in.from[p].lines[k].coords, ov_in.to[p].regs[r].coords)
    /\ Inside(ov_in.from[p].lines[k].baseline, ov_in.to[p].regs[r].coords)

C13_MismatchFails ==
    (ov_in.op = "copy" /\ ov_pc = "returned" /\ ov_err = "") =>
        /\ Len(ov_in.from) = Len(ov_in.to)
        /\ \A p \in DOMAIN ov_in.from : SameSize(ov_in.to[p], ov_in.from[p])

\* C14: every line gone through is cloned into exactly one region, one of
\* maximal score among the regions of the page, and a line whose maximal score
\* is 0 is attached to no region, the operation failing.
C14_ClonedIntoMaximalOrFails ==
    (ov_in.op = "copy" /\ ov_pc \in {"line", "thrown"} /\ ov_npage \in DOMAIN ov_in.from) =>
        \A k \in DOMAIN ov_in.from[ov_npage].lines :
            \/ ~Handled(ov_npage, k)
            \/ \E overlap \in {LineOverlap(ov_in, ov_to, ov_npage, k)} :
                  /\ overlap[max_element(overlap)] # RZero
                  /\ \E r \in DOMAIN overlap :
                        /\ ClonedInto(ov_npage, k) = {r}
                        /\ overlap[r] = overlap[max_element(overlap)]

\* C15: once the operation is no longer working on a page, a whole-page region
\* it added to that page is there only with a line cloned into it: no page
\* keeps an empty region added by the operation.
C15_NoEmptyAddedPageRegion ==
    ov_in.op = "copy" =>
        \A p \in DOMAIN ov_to :
            (p # ov_npage \/ ov_pc \in {"returned", "thrown"}) =>
                \A r \in DOMAIN ov_to[p].regs :
                    ov_to[p].regs[r].id[1] = "page" => ov_to[p].regs[r].lines # <<>>

-----------------------------------------------------------------------------
(* Page images and crops, as built with __PAGEXML_CVIMG__: pagesImage holds *)
(* one cv::Mat per page, an image is [cols, rows], and a cv::Mat without    *)
(* data has neither.                                                        *)

EmptyImage == [cols |-> 0, rows |-> 0]

\* ! img.data
NoData(img) == img.cols = 0

\* cv::imread of the page's file: an image without data if it cannot be read
imread(file) == IF ~file.readable THEN EmptyImage ELSE [cols |-> file.size[1], rows |-> file.size[2]]

\* floor, ceil of a double, and the conversion of a double to an integer type
RFloor(a) == a[1] \div a[2]
RCeil(a) == -((-a[1]) \div a[2])
Trunc(a) == IF a[1] >= 0 THEN a[1] \div a[2] ELSE -((-a[1]) \div a[2])

\* PageXML::loadImage, the rotation of the loaded image by the page's angle
Rotated(img, angle) ==
    IF angle = 90 \/ angle = -90 THEN [cols |-> img.rows, rows |-> img.cols]
    ELSE IF angle = 180 THEN img
    ELSE EmptyImage

(* PageXML::loadImage( pagenum ) with the default arguments: pagesImage     *)
(* after the call, what the call found ("ok" | "unreadable" |               *)
(* "discrepancy"), its message and whether it left by an exception.         *)
loadImage(doc, pagesImage, pagenum) ==
    LET page == doc.pages[pagenum + 1]
        img == imread(page.file)
        differ == page.width # img.cols \/ page.height # img.rows
        read == [pagesImage EXCEPT ![pagenum + 1] = img]
    IN  IF NoData(img)
        THEN [pagesImage |-> read, outcome |-> "unreadable",
              err |-> "PageXML.loadImage: problems reading image", thrown |-> ~doc.nothrow]
        ELSE IF differ /\ ~doc.nothrow
        THEN [pagesImage |-> read, outcome |-> "discrepancy",
              err |-> "PageXML.loadImage: discrepancy between image and xml page size", thrown |-> TRUE]
        ELSE [pagesImage |-> IF page.angle # 0
                             THEN [read EXCEPT ![pagenum + 1] = Rotated(img, page.angle)]
                             ELSE read,
              outcome |-> IF differ THEN "discrepancy" ELSE "ok",
              err |-> IF differ THEN "PageXML.loadImage: discrepancy between image and xml page size" ELSE "",
              thrown |-> FALSE]

\* the test of the cache made by crop and by getPageImage, mutated: always load
CacheEntryStale(pagesImage, pagenum) == TRUE

\* the test of the cache made by crop and by getPageImage
CacheEntryEmpty(pagesImage, pagenum) == NoData(pagesImage[pagenum + 1])

\* margin < 1.0 ? maxWH*margin : margin
MarginPixels(m, maxWH) == IF RLt(m, ROne) THEN RMul(RInt(maxWH), m) ELSE m

(* PageXML::crop, the crop window of one Coords.  margin is <<>> for NULL,  *)
(* otherwise two points.  cropW and cropH are size_t and width-cropX-1 is   *)
(* unsigned: the window is given as cv::Rect receives it, converted to int, *)
(* so that a difference below zero is that negative number.  lastX, lastY   *)
(* are cropX+cropW-1 and cropY+cropH-1 as compared with width and height.   *)
CropWindow(coords, margin, width, height) ==
    LET lim == pointsLimits(coords, None)
        cropW0 == RCeil(lim.xmax) - RFloor(lim.xmin) + 1
        cropH0 == RCeil(lim.ymax) - RFloor(lim.ymin) + 1
        ocropX == RFloor(lim.xmin)
        ocropY == RFloor(lim.ymin)
    IN  IF margin = <<>>
        THEN [cropX |-> ocropX, cropY |-> ocropY, cropW |-> cropW0, cropH |-> cropH0,
              lastX |-> ocropX + cropW0 - 1, lastY |-> ocropY + cropH0 - 1]
        ELSE
        LET maxWH == IF cropW0 > cropH0 THEN cropW0 ELSE cropH0
            mX == Trunc(RSub(RInt(ocropX), MarginPixels(margin[1][1], maxWH)))
            mY == Trunc(RSub(RInt(ocropY), MarginPixels(margin[1][2], maxWH)))
            cropX == IF mX < 0 THEN 0 ELSE mX
            cropY == IF mY < 0 THEN 0 ELSE mY
            cropW1 == Trunc(RAdd(RInt(cropW0 + (ocropX - cropX)), MarginPixels(margin[2][1], maxWH)))
            cropH1 == Trunc(RAdd(RInt(cropH0 + (ocropY - cropY)), MarginPixels(margin[2][2], maxWH)))
        IN  [cropX |-> cropX, cropY |-> cropY,
             cropW |-> IF cropX + cropW1 - 1 >= width THEN width - cropX - 1 ELSE cropW1,
             cropH |-> IF cropY + cropH1 - 1 >= height THEN height - cropY - 1 ELSE cropH1,
             lastX |-> cropX + cropW1 - 1, lastY |-> cropY + cropH1 - 1]

\* cv::Mat::operator()( roi ): whether the rectangle lies within the image
RoiWithin(win, img) ==
    /\ 0 <= win.cropX /\ 0 <= win.cropW /\ win.cropX + win.cropW <= img.cols
    /\ 0 <= win.cropY /\ 0 <= win.cropH /\ win.cropY + win.cropH <= img.rows

\* throw_runtime_error followed by return images, within the loop of crop
CropFail(doc, st, msg) ==
    [st EXCEPT !.errs = Append(@, msg),
               !.status = IF doc.nothrow THEN "returned" ELSE "thrown"]

(* PageXML::crop, the body of the loop for the match elem: the local        *)
(* variables, pagesImage and the images collected after it.                 *)
CropElem(doc, margin, elem, st) ==
    IF elem.kind # "Coords"
    THEN CropFail(doc, st, "PageXML.crop: expected xpath to match only Coords elements")
    ELSE
    LET fresh == st.prevPage # elem.page
        load == fresh /\ CacheEntryEmpty(st.pagesImage, elem.page)
        ld == IF load THEN loadImage(doc, st.pagesImage, elem.page)
              ELSE [pagesImage |-> st.pagesImage, outcome |-> "", err |-> "", thrown |-> FALSE]
        s1 == [st EXCEPT !.prevPage = elem.page,
                         !.width = IF fresh THEN doc.pages[elem.page + 1].width ELSE @,
                         !.height = IF fresh THEN doc.pages[elem.page + 1].height ELSE @,
                         !.pagesImage = ld.pagesImage,
                         !.loads = IF load THEN [@ EXCEPT ![elem.page + 1] = Append(@, ld.outcome)] ELSE @,
                         !.loaded = IF load THEN @ \cup {elem.page} ELSE @,
                         !.errs = IF ld.err # "" THEN Append(@, ld.err) ELSE @,
                         !.pageImage = IF ld.thrown THEN @
                                       ELSE IF fresh THEN ld.pagesImage[elem.page + 1] ELSE @]
    IN  IF ld.thrown THEN [s1 EXCEPT !.status = "thrown"]
        ELSE IF elem.id = ""
        THEN CropFail(doc, s1, "PageXML.crop: expected parent element to include id attribute")
        ELSE IF elem.points = <<>>
        THEN CropFail(doc, s1, "PageXML.crop: expected a points attribute in Coords element")
        ELSE
        LET win == CropWindow(elem.points, margin, s1.width, s1.height)
            s2 == [s1 EXCEPT !.windows = Append(@, win @@ [width |-> s1.width, height |-> s1.height])]
        IN  IF ~RoiWithin(win, s1.pageImage)
            THEN [s2 EXCEPT !.errs = Append(@, "cv::Exception"), !.status = "thrown"]
            ELSE [s2 EXCEPT !.images = Append(@, [id |-> elem.id, x |-> win.cropX, y |-> win.cropY,
                                                  image |-> [cols |-> win.cropW, rows |-> win.cropH],
                                                  page |-> elem.page])]

\* PageXML::crop, the loop over the matches from the n-th on
RECURSIVE CropLoop(_, _, _, _, _)
CropLoop(doc, margin, elems_coords, n, st) ==
    IF n > Len(elems_coords) \/ st.status # "run" THEN st
    ELSE CropLoop(doc, margin, elems_coords, n + 1, CropElem(doc, margin, elems_coords[n], st))

(* PageXML::crop( xpath, margin ) without opaque_coords: elems_coords is    *)
(* what the selector matches, in document order.                            *)
crop(doc, pagesImage, loads, elems_coords, margin) ==
    CropLoop(doc, margin, elems_coords, 1,
             [prevPage |-> -1, width |-> 0, height |-> 0, pageImage |-> EmptyImage,
              images |-> <<>>, windows |-> <<>>, pagesImage |-> pagesImage,
              loads |-> loads, loaded |-> {}, errs |-> <<>>, status |-> "run"])

-----------------------------------------------------------------------------
(* Specification SpecCrop: calls of getPageImage and crop, one after the    *)
(* other, on a document of one or two pages that is not changed.            *)

\* most calls made on one document
MaxCalls == 2

\* the declared imageWidth and imageHeight of every page
PageW == 4
PageH == 3

\* an image file: whether it can be read, and the size of its image
File(readable, cols, rows) == [readable |-> readable, size |-> <<cols, rows>>]

\* a Page: its declared size, its image file and its orientation
Page(file, angle) == [width |-> PageW, height |-> PageH, file |-> file, angle |-> angle]

\* pages whose file agrees, is rotated, is of another size, cannot be read
PageKinds ==
    {Page(File(TRUE, PageW, PageH), 0), Page(File(TRUE, PageW, PageH), 90),
     Page(File(TRUE, PageW - 1, PageH), 0), Page(File(FALSE, PageW, PageH), 0)}

\* documents of one page, and of two pages of which one has a good file
CrDocuments ==
    {[pages |-> ps, nothrow |-> nt] :
        ps \in {<<p>> : p \in PageKinds}
                \cup {<<Page(File(TRUE, PageW, PageH), 0), q>> : q \in PageKinds}
                \cup {<<p, Page(File(TRUE, PageW, PageH), 0)>> : p \in PageKinds},
        nt \in BOOLEAN}

\* the points of a Coords as stringToPoints reads them, halves included
HalfBox(x0, y0, x1, y1) ==
    << <<Rat(x0, 2), Rat(y0, 2)>>, <<Rat(x1, 2), Rat(y0, 2)>>,
       <<Rat(x1, 2), Rat(y1, 2)>>, <<Rat(x0, 2), Rat(y1, 2)>> >>

CoordsPoints ==
    {HalfBox(0, 0, 2, 2), HalfBox(2, 0, 6, 4), HalfBox(1, 1, 5, 3),
     HalfBox(4, 2, 6, 4), HalfBox(2 * PageW, 0, 2 * PageW + 2, 2)}

\* an element a selector matches: its name, its page, its parent's id, its points
Elem(kind, page, id, points) == [kind |-> kind, page |-> page, id |-> id, points |-> points]

GoodElems(page) == {Elem("Coords", page, "t1", pts) : pts \in CoordsPoints}

BadElems(page) ==
    {Elem("Baseline", page, "t2", HalfBox(0, 0, 2, 2)),
     Elem("Coords", page, "", HalfBox(0, 0, 2, 2)),
     Elem("Coords", page, "t3", <<>>)}

\* a first match that can be cropped
FirstElem(page) == Elem("Coords", page, "t0", HalfBox(0, 0, 2, 2))

\* the margins of a call: NULL, pixels, a fraction of the larger side
Margins ==
    {<<>>,
     << <<RZero, RZero>>, <<RZero, RZero>> >>,
     << <<ROne, ROne>>, <<ROne, ROne>> >>,
     << <<RInt(2), ROne>>, <<RInt(2), RInt(2)>> >>,
     << <<Rat(1, 2), Rat(1, 2)>>, <<Rat(1, 2), Rat(1, 2)>> >>}

\* what a selector can match in doc, with a margin: one element, or several
CropInputs(doc) ==
    LET pages == 0 .. Len(doc.pages) - 1
    IN  {<< <<e>>, m >> : e \in GoodElems(0), m \in Margins}
        \cup {<< <<e>>, <<>> >> : e \in UNION {BadElems(p) : p \in pages}}
        \cup {<< <<FirstElem(0), e>>, <<>> >> : e \in UNION {BadElems(p) : p \in pages}}
        \cup {<< <<FirstElem(0), FirstElem(p)>>, <<>> >> : p \in pages}
        \cup {<< <<>>, <<>> >>}

CrInit ==
    /\ cr_pc = "run"
    /\ cr_doc \in CrDocuments
    /\ cr_pagesImage = [p \in 1 .. Len(cr_doc.pages) |-> EmptyImage]
    /\ cr_loads = [p \in 1 .. Len(cr_doc.pages) |-> <<>>]
    /\ cr_calls = 0
    /\ cr_last = [op |-> "", page |-> -2, elems |-> <<>>, margin |-> <<>>, thrown |-> FALSE,
                  errs |-> <<>>, images |-> <<>>, windows |-> <<>>, loaded |-> {}]

(* PageXML::getPageImage( pagenum ): the image returned is the one element  *)
(* of images; nothing is returned when the call leaves by an exception.     *)
CrGetPageImage ==
    /\ cr_pc = "run"
    /\ cr_calls < MaxCalls
    /\ \E pagenum \in -1 .. Len(cr_doc.pages) :
        LET range == pagenum < 0 \/ pagenum >= Len(cr_pagesImage)
            load == ~range /\ CacheEntryEmpty(cr_pagesImage, pagenum)
            ld == IF load THEN loadImage(cr_doc, cr_pagesImage, pagenum)
                  ELSE [pagesImage |-> cr_pagesImage, outcome |-> "",
                        err |-> IF range THEN "PageXML.getPageImage: page number out of range" ELSE "",
                        thrown |-> range /\ ~cr_doc.nothrow]
        IN  /\ cr_pagesImage' = ld.pagesImage
            /\ cr_loads' = IF load THEN [cr_loads EXCEPT ![pagenum + 1] = Append(@, ld.outcome)]
                           ELSE cr_loads
            /\ cr_last' = [op |-> "getPageImage", page |-> pagenum, elems |-> <<>>, margin |-> <<>>,
                           thrown |-> ld.thrown,
                           errs |-> IF ld.err # "" THEN <<ld.err>> ELSE <<>>,
                           images |-> IF ld.thrown THEN <<>>
                                      ELSE IF range THEN <<EmptyImage>>
                                      ELSE <<ld.pagesImage[pagenum + 1]>>,
                           windows |-> <<>>,
                           loaded |-> IF load THEN {pagenum} ELSE {}]
    /\ cr_calls' = cr_calls + 1
    /\ UNCHANGED <<cr_pc, cr_doc>>
    /\ UNCHANGED <<spVars, bbVars, stVars, roVars, ovVars, gmVars, fnVars, idVars, pgVars, prVars>>

(* PageXML::crop( xpath, margin ): images is the vector returned; nothing   *)
(* is returned when the call leaves by an exception.                        *)
CrCrop ==
    /\ cr_pc = "run"
    /\ cr_calls < MaxCalls
    /\ \E in \in CropInputs(cr_doc) :
        \E st \in {crop(cr_doc, cr_pagesImage, cr_loads, in[1], in[2])} :
            /\ cr_pagesImage' = st.pagesImage
            /\ cr_loads' = st.loads
            /\ cr_last' = [op |-> "crop", page |-> -2, elems |-> in[1], margin |-> in[2],
                           thrown |-> st.status = "thrown",
                           errs |-> st.errs,
                           images |-> IF st.status = "thrown" THEN <<>> ELSE st.images,
                           windows |-> st.windows,
                           loaded |-> st.loaded]
    /\ cr_calls' = cr_calls + 1
    /\ UNCHANGED <<cr_pc, cr_doc>>
    /\ UNCHANGED <<spVars, bbVars, stVars, roVars, ovVars, gmVars, fnVars, idVars, pgVars, prVars>>

CrNext == CrGetPageImage \/ CrCrop

CrStart == SpIdle /\ BbIdle /\ StIdle /\ RoIdle /\ OvIdle /\ CrInit /\ GmIdle
    /\ FnIdle /\ IdIdle /\ PgIdle /\ PrIdle

SpecCrop == CrStart /\ [][CrNext]_vars

-----------------------------------------------------------------------------
(* Claims on SpecCrop.                                                      *)

\* C16: when crop is given a margin, every crop window it computes lies
\* within the page, columns 0 .. width-1 and rows 0 .. height-1, and a window
\* whose expanded box reaches past the right or the bottom edge of the page
\* ends exactly at column width-1 or at row height-1.
C16_WindowClampedToPage ==
    (cr_last.op = "crop" /\ cr_last.margin # <<>>) =>
        \A i \in 1 .. Len(cr_last.windows) :
            LET w == cr_last.windows[i]
            IN  /\ 0 <= w.cropX /\ w.cropX + w.cropW - 1 <= w.width - 1
                /\ 0 <= w.cropY /\ w.cropY + w.cropH - 1 <= w.height - 1
                /\ w.lastX >= w.width => w.cropX + w.cropW - 1 = w.width - 1
                /\ w.lastY >= w.height => w.cropY + w.cropH - 1 = w.height - 1

\* a match that crop refuses: not a Coords, no id on its parent, no points
Refused(elem) == elem.kind # "Coords" \/ elem.id = "" \/ elem.points = <<>>

\* C17: a call of crop whose selector matches an element that is not a
\* Coords, or a Coords without points, or one whose parent has no id, ends
\* with an error and hands back no crop at all, those of earlier matches
\* included.
C17_RefusedMatchAbortsBatch ==
    (cr_last.op = "crop" /\ \E i \in 1 .. Len(cr_last.elems) : Refused(cr_last.elems[i])) =>
        cr_last.errs # <<>> /\ cr_last.images = <<>>

\* C18: in every call of crop or getPageImage the image of a page is read
\* from its file only if the page's entry of the cache is empty before the
\* call, at most once in the call, and never after a load of that page that
\* succeeded.
C18_LoadedOnlyWhenEmpty ==
    [][\A p \in 1 .. Len(cr_loads) :
          cr_loads'[p] # cr_loads[p] =>
              /\ cr_pagesImage[p].cols = 0
              /\ Len(cr_loads'[p]) = Len(cr_loads[p]) + 1
              /\ \A i \in 1 .. Len(cr_loads[p]) : cr_loads[p][i] # "ok"]_vars

\* C18 witness: the second call crops from a page that the first call loaded
\* with success, without loading anything.
C18_Witness ==
    /\ cr_calls = 2 /\ cr_last.op = "crop" /\ cr_last.loaded = {}
    /\ Len(cr_last.images) > 0
    /\ cr_loads[cr_last.images[1].page + 1] = <<"ok">>

\* C19: once loadImage has reported that the image of a page is not of the
\* declared size, the cache holds no image for that page, and a later call
\* of getPageImage or crop that reports no error hands back nothing taken
\* from that image.
C19_MismatchedRasterNotKept ==
    \A p \in 1 .. Len(cr_loads) :
        (\E i \in 1 .. Len(cr_loads[p]) : cr_loads[p][i] = "discrepancy") =>
            /\ cr_pagesImage[p].cols = 0
            /\ (cr_last.op = "getPageImage" /\ cr_last.page = p - 1 /\ cr_last.errs = <<>>) =>
                   \A i \in 1 .. Len(cr_last.images) : cr_last.images[i].cols = 0
            /\ (cr_last.op = "crop" /\ cr_last.errs = <<>>) =>
                   \A i \in 1 .. Len(cr_last.images) : cr_last.images[i].page # p - 1

-----------------------------------------------------------------------------
(* setCoords and setBaseline on one node.  A child element is               *)
(* [name, has_points, points, has_conf]; the calls of libxml2 that create   *)
(* the element and its attributes can fail, which is the input fail.        *)

\* an element with a points attribute, and one created by xmlNewNode
Geometry(name, points) == [name |-> name, has_points |-> TRUE, points |-> points, has_conf |-> FALSE]
NewNode(name) == [name |-> name, has_points |-> FALSE, points |-> <<>>, has_conf |-> FALSE]

\* rmElems( select( "_:name", node ) )
rmElems(children, name) == SelectSeq(children, LAMBDA c : c.name # name)

\* index of the first child whose name is not in skip, 0 if there is none
RECURSIVE FirstOther(_, _, _)
FirstOther(children, skip, n) ==
    IF n > Len(children) THEN 0
    ELSE IF children[n].name \notin skip THEN n
    ELSE FirstOther(children, skip, n + 1)

\* PageXML::insertElem: PAGEXML_INSERT_PREVSIB of children[n], APPEND for n = 0
insertElem(children, elem, n) ==
    IF n = 0 THEN Append(children, elem)
    ELSE SubSeq(children, 1, n - 1) \o <<elem>> \o SubSeq(children, n, Len(children))

(* The part that setCoords and setBaseline have in common, from rmElems on: *)
(* the children of the node after the call and how the call ended           *)
(* ("returned" with the element, "null" for return NULL, "thrown").         *)
SetGeometry(children, name, skip, points, conf, fail, nothrow) ==
    LET removed == rmElems(children, name)
        failed == IF nothrow THEN "null" ELSE "thrown"
        at == FirstOther(removed, skip, 1)
        added == insertElem(removed, NewNode(name), at)
        pos == IF at = 0 THEN Len(added) ELSE at
        pointed == [added EXCEPT ![pos].has_points = TRUE,
                                 ![pos].points = pointsToString(points, FALSE)]
    IN  IF fail = "xmlNewNode" THEN [children |-> removed, res |-> failed]
        ELSE IF fail = "points" THEN [children |-> added, res |-> failed]
        ELSE IF ~conf THEN [children |-> pointed, res |-> "returned"]
        ELSE IF fail = "conf" THEN [children |-> pointed, res |-> failed]
        ELSE [children |-> [pointed EXCEPT ![pos].has_conf = TRUE], res |-> "returned"]

\* PageXML::setCoords( node, points, _conf )
setCoords(node, points, conf, fail, nothrow) ==
    SetGeometry(node.children, "Coords", {"Property"}, points, conf, fail, nothrow)

\* PageXML::setBaseline( node, points, _conf )
setBaseline(node, points, conf, fail, nothrow) ==
    IF node.name # "TextLine"
    THEN [children |-> node.children, res |-> IF nothrow THEN "null" ELSE "thrown"]
    ELSE SetGeometry(node.children, "Baseline", {"Property", "Coords"}, points, conf, fail, nothrow)

-----------------------------------------------------------------------------
(* Specification SpecGeometry: one call of setCoords or of setBaseline on a *)
(* TextLine or a TextRegion.                                                *)

\* the children a node can have, in the order of the schema
GmChildren ==
    {pr \o co \o ba \o te :
        pr \in {<<>>, <<NewNode("Property")>>},
        co \in {<<>>, <<Geometry("Coords", pointsToString(<<Pt(1, 0), Pt(4, 0), Pt(4, 2), Pt(1, 2)>>, FALSE))>>},
        ba \in {<<>>, <<Geometry("Baseline", pointsToString(<<Pt(1, 2), Pt(4, 2)>>, FALSE))>>},
        te \in {<<>>, <<NewNode("TextEquiv")>>}}

GmNodes == {[name |-> nm, children |-> ch] : nm \in {"TextLine", "TextRegion"}, ch \in GmChildren}

\* the points given to the call
GmPoints == {<<Pt(0, 0), Pt(2, 1)>>, << <<Rat(1, 2), RInt(1)>>, Pt(3, 1), Pt(3, 2)>>}

\* the call of libxml2 that fails, if any: xmlNewNode, or xmlNewProp of points or conf
GmFailures == {"none", "xmlNewNode", "points", "conf"}

GmInit ==
    /\ gm_pc = "ready"
    /\ gm_node \in GmNodes
    /\ gm_call = [fn |-> "", before |-> gm_node, points |-> <<>>, conf |-> FALSE,
                  fail |-> "none", nothrow |-> FALSE]
    /\ gm_res = ""

GmSetCoords ==
    /\ gm_pc = "ready"
    /\ \E points \in GmPoints, conf \in BOOLEAN, fail \in GmFailures, nothrow \in BOOLEAN :
        \E out \in {setCoords(gm_node, points, conf, fail, nothrow)} :
            /\ fail = "conf" => conf
            /\ gm_node' = [gm_node EXCEPT !.children = out.children]
            /\ gm_res' = out.res
            /\ gm_call' = [fn |-> "setCoords", before |-> gm_node, points |-> points, conf |-> conf,
                           fail |-> fail, nothrow |-> nothrow]
    /\ gm_pc' = "end"
    /\ UNCHANGED <<spVars, bbVars, stVars, roVars, ovVars, crVars, fnVars, idVars, pgVars, prVars>>

GmSetBaseline ==
    /\ gm_pc = "ready"
    /\ \E points \in GmPoints, conf \in BOOLEAN, fail \in GmFailures, nothrow \in BOOLEAN :
        \E out \in {setBaseline(gm_node, points, conf, fail, nothrow)} :
            /\ fail = "conf" => conf
            /\ gm_node' = [gm_node EXCEPT !.children = out.children]
            /\ gm_res' = out.res
            /\ gm_call' = [fn |-> "setBaseline", before |-> gm_node, points |-> points, conf |-> conf,
                           fail |-> fail, nothrow |-> nothrow]
    /\ gm_pc' = "end"
    /\ UNCHANGED <<spVars, bbVars, stVars, roVars, ovVars, crVars, fnVars, idVars, pgVars, prVars>>

GmNext == GmSetCoords \/ GmSetBaseline

GmStart == SpIdle /\ BbIdle /\ StIdle /\ RoIdle /\ OvIdle /\ CrIdle /\ GmInit
    /\ FnIdle /\ IdIdle /\ PgIdle /\ PrIdle

SpecGeometry == GmStart /\ [][GmNext]_vars

-----------------------------------------------------------------------------
(* Claim on SpecGeometry.                                                   *)

\* the elements of a node that the call made replaces
GmOwn(node) ==
    SelectSeq(node.children,
              LAMBDA c : c.name = (IF gm_call.fn = "setCoords" THEN "Coords" ELSE "Baseline"))

\* C20: after a call of setCoords or setBaseline, however it ended, the node
\* is as it was before the call, or it holds exactly one Coords (one
\* Baseline) and that element carries the points given to the call, complete.
C20_ReplaceIsAtomic ==
    gm_pc = "end" =>
        \/ gm_node = gm_call.before
        \/ /\ Len(GmOwn(gm_node)) = 1
           /\ GmOwn(gm_node)[1].has_points
           /\ GmOwn(gm_node)[1].points = pointsToString(gm_call.points, FALSE)


-----------------------------------------------------------------------------
(* A further claim on polystripes.                                         *)

(* The three points are collinear within the tolerance of withinSegment:  *)
(* twice the area of their triangle over twice the squared perimeter is   *)
(* not above 1e-3.                                                         *)
Collinear(a, b, c) ==
    With(RAdd(RAdd(Norm(PSub(a, b)), Norm(PSub(a, c))), Norm(PSub(b, c))), LAMBDA per :
    With(RAbs(RAdd(RAdd(RMul(a[1], RSub(b[2], c[2])),
                        RMul(b[1], RSub(c[2], a[2]))),
                   RMul(c[1], RSub(a[2], b[2])))), LAMBDA det :
        per[1] = 0 \/ RLe(RDiv(det, RMul(RInt(2), RMul(per, per))), <<1, 1000>>)))

\* the Coords and Baseline points of the node
StCoordPoints == getPoints(st_node.has_coords, st_node.coords)
StBasePoints == getPoints(st_node.has_baseline, st_node.baseline)

(* C25: isPolystripe returns true only if every baseline vertex n is       *)
(* collinear with coords[n] and coords[size-1-n], and a stripe it rejects  *)
(* although its lines are parallel and its extremes perpendicular has a    *)
(* baseline vertex that is not collinear with its pair: a vertex lying on  *)
(* the segment between its paired points is no reason to reject.           *)
C25_RejectsOnlyNonCollinear ==
    ( /\ st_pc = "end"
      /\ Len(StBasePoints) >= 2
      /\ Len(StCoordPoints) = 2 * Len(StBasePoints) ) =>
        /\ st_res.ok =>
              \A n \in 0..(Len(StBasePoints) - 1) :
                  Collinear(StCoordPoints[n + 1], StCoordPoints[Len(StCoordPoints) - n], StBasePoints[n + 1])
        /\ ( /\ ~st_res.ok
             /\ \A n \in 0..(Len(StBasePoints) - 1) :
                   ~ShapeFailsAt(StCoordPoints, StBasePoints, n, PZero) ) =>
              \E n \in 0..(Len(StBasePoints) - 1) :
                  ~Collinear(StCoordPoints[n + 1], StCoordPoints[Len(StCoordPoints) - n], StBasePoints[n + 1])


-----------------------------------------------------------------------------
(* Further claims on the reading order.                                    *)

-----------------------------------------------------------------------------
(* Further claims on the reading order.                                     *)

\* how often line n occurs in the groups gs
RECURSIVE Occurrences(_, _)
Occurrences(gs, n) ==
    IF gs = <<>> THEN 0
    ELSE Cardinality({j \in 1..Len(gs[1]) : gs[1][j] = n}) + Occurrences(Tail(gs), n)

(* C23: Phase B adds a line as a group of its own if and only if the line  *)
(* is in none of the groups that Phase A put out, the extra groups of a    *)
(* recursion included: in the reading order a line of some group occurs as *)
(* often as in the groups, and a line of no group occurs once.             *)
C23_SingletonIffInNoGroup ==
    ro_pc = "done" =>
        \A n \in 0..(Len(ro_lines) - 1) :
            Occurrences(<<ro_reading_order>>, n) =
                IF Occurrences(ro_line_groups, n) = 0 THEN 1
                ELSE Occurrences(ro_line_groups, n)

(* C28: in the groups that testTextLineContinuation puts out no line index *)
(* occurs in two groups and none occurs twice in one group.                *)
C28_GroupsDisjoint ==
    ro_pc \in {"phaseB", "done"} =>
        \A n \in 0..(Len(ro_lines) - 1) : Occurrences(ro_line_groups, n) <= 1

\* a line with a Baseline of length 0 or a Coords end edge of length 0
DegenerateLine(l) ==
    ZeroLength(l.baseline) \/ l.coords[1] = l.coords[4] \/ l.coords[2] = l.coords[3]

(* C22: a call of getTextLinesReadingOrder on lines of which one has a     *)
(* Baseline of length 0 or a Coords end edge of length 0 fails: it neither *)
(* hands the groups of Phase A to Phase B nor returns a reading order.     *)
C22_DegenerateLineFails ==
    (\E n \in 1..Len(ro_lines) : DegenerateLine(LineCatalog[ro_lines[n]])) =>
        ro_pc \notin {"phaseB", "done"}


-----------------------------------------------------------------------------
(* A further claim on overlap scoring.                                     *)

\* the sum of areas[r] over the positions r of the set over
RECURSIVE SumOver(_, _)
SumOver(over, areas) ==
    IF over = {} THEN 0
    ELSE With(CHOOSE r \in over : TRUE, LAMBDA r : areas[r] + SumOver(over \ {r}, areas))

(* scores are the area-weighted scores for the measures isects of the      *)
(* overlaps, the measure total of the line and the areas of the            *)
(* candidates, over being the candidates that overlap the line             *)
AreaWeighted(scores, isects, total, areas, over) ==
    \A r \in DOMAIN scores :
        /\ scores[r] =
              IF r \notin over THEN RZero
              ELSE IF Cardinality(over) < 2 THEN Rat(isects[r], total)
              ELSE RMul(Rat(isects[r], total), RSub(ROne, Rat(areas[r], SumOver(over, areas))))
        /\ RLe(RZero, scores[r]) /\ RLe(scores[r], ROne)
        /\ r \in over => RGt(scores[r], RZero)

\* the candidates with an overlap of positive measure
Overlapping(isects) == {r \in DOMAIN isects : isects[r] > 0}

\* the scores of the line against the polygons polys under an area-weighted policy
ScoredAreaWeighted(scores, isects, total, polys) ==
    AreaWeighted(scores, isects, total, [r \in DOMAIN polys |-> get_Area(polys[r])],
                 Overlapping(isects))

LineAreaWeighted(line, polys, overlap_type, empty_type) ==
    IF overlap_type = "PAGEXML_OVERLAP_COORDS_IWA"
    THEN ScoredAreaWeighted(Overlap(line, polys, overlap_type, ROne, empty_type),
                            [r \in DOMAIN polys |-> Intersection(polys[r], line.coords, empty_type).area],
                            get_Area(line.coords), polys)
    ELSE ScoredAreaWeighted(Overlap(line, polys, overlap_type, ROne, empty_type),
                            [r \in DOMAIN polys |-> Intersection(polys[r], line.baseline, empty_type).length],
                            get_Length(line.baseline), polys)

(* C24: under the policies COORDS_IWA and BASELINE_IWA the scores of a     *)
(* line gone through are the raw overlapped fraction when fewer than 2     *)
(* regions overlap it, otherwise each nonzero score is the fraction times  *)
(* (1 - area of the region / sum of the areas of the overlapping regions); *)
(* zero scores stay zero, every score lies in [0,1] and a region that      *)
(* overlaps the line keeps a score above 0.                                *)
C24_AreaWeightedScores ==
    ( /\ ov_in.op = "copy" /\ ov_pc = "line" /\ ov_npage \in DOMAIN ov_in.from
      /\ ov_in.overlap_type \in {"PAGEXML_OVERLAP_COORDS_IWA", "PAGEXML_OVERLAP_BASELINE_IWA"} ) =>
        \A k \in DOMAIN ov_in.from[ov_npage].lines :
            Handled(ov_npage, k) =>
                LineAreaWeighted(ov_in.from[ov_npage].lines[k],
                                 [r \in DOMAIN ov_to[ov_npage].regs |-> ov_to[ov_npage].regs[r].coords],
                                 ov_in.overlap_type, ov_in.empty_type)

(* C24 happens: line 1 of page 1 has been scored by Coords area against    *)
(* at least two regions that overlap it, and cloned into one of them.      *)
C24_Witness ==
    /\ ov_in.op = "copy" /\ ov_pc = "line" /\ ov_npage = 1
    /\ ov_in.overlap_type = "PAGEXML_OVERLAP_COORDS_IWA"
    /\ Handled(1, 1)
    /\ Cardinality({r \in DOMAIN ov_to[1].regs :
                      LineOverlap(ov_in, ov_to, 1, 1)[r] # RZero}) >= 2
    /\ ClonedInto(1, 1) # {}


-----------------------------------------------------------------------------
(* Specification SpecAngles: one call of angleDiff on two angles of        *)
(* [-pi, pi], or one call of IoU_1d on the ends of two intervals.          *)

MaxEnd == 4
AngleSteps == 4

\* the angles k * pi / AngleSteps of [-pi, pi], in units of pi
FnAngles == {Rat(k, AngleSteps) : k \in (-AngleSteps)..AngleSteps}

FnInputs ==
    {[fn |-> "IoU_1d", args |-> <<RInt(a1), RInt(a2), RInt(b1), RInt(b2)>>] :
        a1 \in 0..MaxEnd, a2 \in 0..MaxEnd, b1 \in 0..MaxEnd, b2 \in 0..MaxEnd}
    \cup {[fn |-> "angleDiff", args |-> <<a1, a2>>] : a1 \in FnAngles, a2 \in FnAngles}

FnInit == fn_pc = "args" /\ fn_call \in FnInputs /\ fn_ret = <<>>

FnAngleDiff ==
    /\ fn_pc = "args" /\ fn_call.fn = "angleDiff"
    /\ fn_ret' = angleDiff(fn_call.args[1], fn_call.args[2])
    /\ fn_pc' = "end"
    /\ UNCHANGED fn_call
    /\ UNCHANGED <<spVars, bbVars, stVars, roVars, ovVars, crVars, gmVars, idVars, pgVars, prVars>>

FnIoU_1d ==
    /\ fn_pc = "args" /\ fn_call.fn = "IoU_1d"
    /\ fn_ret' = IoU_1d(fn_call.args[1], fn_call.args[2], fn_call.args[3], fn_call.args[4])
    /\ fn_pc' = "end"
    /\ UNCHANGED fn_call
    /\ UNCHANGED <<spVars, bbVars, stVars, roVars, ovVars, crVars, gmVars, idVars, pgVars, prVars>>

FnNext == FnAngleDiff \/ FnIoU_1d

FnStart ==
    /\ SpIdle /\ BbIdle /\ StIdle /\ RoIdle /\ OvIdle /\ CrIdle /\ GmIdle
    /\ FnInit /\ IdIdle /\ PgIdle /\ PrIdle

SpecAngles == FnStart /\ [][FnNext]_vars

\* the length of the union of the intervals a and b that intersect in isect
UnionLength(a1, a2, b1, b2, isect) ==
    RSub(RAdd(RAbs(RSub(a2, a1)), RAbs(RSub(b2, b1))), isect)

\* IoU_1d has returned ret for the intervals a and b that intersect in isect
IoUAsStated(a1, a2, b1, b2, isect, ret) ==
    /\ isect = RZero => ret = RZero
    /\ isect # RZero => ret = RDiv(isect, UnionLength(a1, a2, b1, b2, isect))
    /\ (a1 = b1 /\ a2 = b2 /\ a1 # a2) => ret = ROne
    /\ ret = IoU_1d(b1, b2, a1, a2)

(* C26: IoU_1d returns the length of the intersection of the two intervals *)
(* over the length of their union: 0 for disjoint intervals, 1 for         *)
(* identical intervals of positive length, and the same value when the two *)
(* intervals are exchanged.                                                *)
C26_IoUIsIntersectionOverUnion ==
    (fn_pc = "end" /\ fn_call.fn = "IoU_1d") =>
        IoUAsStated(fn_call.args[1], fn_call.args[2], fn_call.args[3], fn_call.args[4],
                    intersection_1d(fn_call.args[1], fn_call.args[2],
                                    fn_call.args[3], fn_call.args[4]),
                    fn_ret)

(* C27: for a1 and a2 in [-pi, pi], angleDiff returns a value that differs *)
(* from a1 - a2 by a multiple of 2 pi and lies in (-pi, pi]: it never      *)
(* returns -pi.                                                            *)
C27_AngleDiffWithinHalfOpenTurn ==
    (fn_pc = "end" /\ fn_call.fn = "angleDiff") =>
        /\ RDiv(RSub(RSub(fn_call.args[1], fn_call.args[2]), fn_ret), RMul(RInt(2), MPI))[2] = 1
        /\ RGt(fn_ret, RNeg(MPI))
        /\ RLe(fn_ret, MPI)


-----------------------------------------------------------------------------
(* Specification SpecProcess: calls of processStart, processEnd and write  *)
(* on a document whose Metadata holds Creator, Created and LastChange.     *)
(* An element is [name, attrs], attrs being the names of its attributes;   *)
(* the time stamps and the duration written are left out.                  *)

MaxOps == 4

PrElem(name, attrs) == [name |-> name, attrs |-> attrs]

\* ref = "NULL" stands for the null pointer
PrCall(op, tool, ref, failed) == [op |-> op, tool |-> tool, ref |-> ref, failed |-> failed]

PrInit ==
    /\ pr_pc = "run"
    /\ pr_metadata = <<PrElem("Creator", {}), PrElem("Created", {}), PrElem("LastChange", {})>>
    /\ pr_process_running = 0
    /\ pr_calls = 0
    /\ pr_last = <<>>

\* processEnd() on the children of Metadata: setAttr( process_running, "time", sduration )
processEnd(metadata, process_running) ==
    IF process_running = 0 THEN metadata
    ELSE [metadata EXCEPT ![process_running].attrs = @ \cup {"time"}]

\* processStart( tool, ref )
PrProcessStart ==
    /\ pr_pc = "run" /\ pr_calls < MaxOps
    /\ \E tool \in {"", "tool"}, ref \in {"NULL", "", "ref"} :
         IF tool = "" \/ ref = ""
         THEN /\ pr_last' = PrCall("processStart", tool, ref, TRUE)
              /\ UNCHANGED <<pr_metadata, pr_process_running>>
         ELSE /\ pr_metadata' = Append(pr_metadata,
                                       PrElem("Process", {"started", "tool"}
                                                 \cup (IF ref # "NULL" THEN {"ref"} ELSE {})))
              /\ pr_process_running' = Len(pr_metadata) + 1
              /\ pr_last' = PrCall("processStart", tool, ref, FALSE)
    /\ pr_calls' = pr_calls + 1
    /\ UNCHANGED pr_pc
    /\ UNCHANGED <<spVars, bbVars, stVars, roVars, ovVars, crVars, gmVars, fnVars, idVars, pgVars>>

\* processEnd()
PrProcessEnd ==
    /\ pr_pc = "run" /\ pr_calls < MaxOps
    /\ pr_metadata' = processEnd(pr_metadata, pr_process_running)
    /\ pr_process_running' = 0
    /\ pr_last' = PrCall("processEnd", "", "NULL", FALSE)
    /\ pr_calls' = pr_calls + 1
    /\ UNCHANGED pr_pc
    /\ UNCHANGED <<spVars, bbVars, stVars, roVars, ovVars, crVars, gmVars, fnVars, idVars, pgVars>>

\* write( fname ): if ( process_running ) processEnd(); then the document is saved
PrWrite ==
    /\ pr_pc = "run" /\ pr_calls < MaxOps
    /\ pr_metadata' = processEnd(pr_metadata, pr_process_running)
    /\ pr_process_running' = 0
    /\ pr_last' = PrCall("write", "", "NULL", FALSE)
    /\ pr_calls' = pr_calls + 1
    /\ UNCHANGED pr_pc
    /\ UNCHANGED <<spVars, bbVars, stVars, roVars, ovVars, crVars, gmVars, fnVars, idVars, pgVars>>

PrNext == PrProcessStart \/ PrProcessEnd \/ PrWrite

PrStart ==
    /\ SpIdle /\ BbIdle /\ StIdle /\ RoIdle /\ OvIdle /\ CrIdle /\ GmIdle
    /\ FnIdle /\ IdIdle /\ PgIdle /\ PrInit

SpecProcess == PrStart /\ [][PrNext]_vars

(* C30: whenever no process is running, every Process element of Metadata  *)
(* carries a time attribute, also after processStart was called again      *)
(* before the previous process was ended.                                  *)
C30_EndedProcessesTimed ==
    (pr_pc = "run" /\ pr_process_running = 0) =>
        \A i \in DOMAIN pr_metadata :
            pr_metadata[i].name = "Process" => "time" \in pr_metadata[i].attrs


-----------------------------------------------------------------------------
(* Specification SpecPages: calls of addPage and getPageImage on a         *)
(* document that starts with one Page.  A file name is a sequence of       *)
(* characters; a raster is the name of the file it was read from, <<>>     *)
(* for an image without data.  Every image file named can be read and has  *)
(* the size the Page declares.                                             *)

MaxPageCalls == 3

PgImages == {<<"a", ".", "x">>, <<"b", " ", "c", ".", "x">>, <<>>}

\* regex_replace( imageFilename, reFileExt, "" ), reFileExt being "\\.[^.]+$"
StripFileExt(name) ==
    IF \E i \in 1..(Len(name) - 1) : name[i] = "." /\ \A j \in (i + 1)..Len(name) : name[j] # "."
    THEN SubSeq(name, 1, (CHOOSE i \in 1..(Len(name) - 1) :
                              name[i] = "." /\ \A j \in (i + 1)..Len(name) : name[j] # ".") - 1)
    ELSE name

\* regex_replace( imageBase, reInvalidBaseChars, "_" ), reInvalidBaseChars being " "
ReplaceInvalidBaseChars(base) == [i \in DOMAIN base |-> IF base[i] = " " THEN "_" ELSE base[i]]

(* PageXML::parsePageImage( pagenum ) for the Page of attribute            *)
(* imageFilename: the two members after the call, and whether it threw.    *)
parsePageImage(imageFilename, pagesImageFilename, pagesImageBase, pagenum) ==
    IF imageFilename = <<>>
    THEN [pagesImageFilename |-> pagesImageFilename, pagesImageBase |-> pagesImageBase,
          failed |-> TRUE]
    ELSE [pagesImageFilename |-> [pagesImageFilename EXCEPT ![pagenum + 1] = imageFilename],
          pagesImageBase |-> [pagesImageBase EXCEPT ![pagenum + 1] =
                                  ReplaceInvalidBaseChars(StripFileExt(imageFilename))],
          failed |-> FALSE]

(* addPage with before_node: the member v after v.push_back(v[numpages-1]) *)
(* and the loop that moves the entries above page_num up by one            *)
ShiftedFrom(v, page_num) == SubSeq(v, 1, page_num + 1) \o SubSeq(v, page_num + 1, Len(v))

\* the sequence s with e inserted so that it becomes element k
InsertAt(s, k, e) == SubSeq(s, 1, k - 1) \o <<e>> \o SubSeq(s, k, Len(s))

PgPage(page, imageFilename) == [page |-> page, imageFilename |-> imageFilename]

PgCall(op, arg, image, failed) == [op |-> op, arg |-> arg, image |-> image, failed |-> failed]

\* the document after setupXml: the members hold one entry per Page, no raster
PgInit ==
    /\ pg_pc = "run"
    /\ \E image \in PgImages \ {<<>>} :
         /\ pg_pages = <<PgPage(1, image)>>
         /\ pg_pagesImageFilename = <<image>>
         /\ pg_pagesImageBase = <<ReplaceInvalidBaseChars(StripFileExt(image))>>
    /\ pg_pagesImage = <<<<>>>>
    /\ pg_calls = 0
    /\ pg_last = <<>>

(* addPage( image, imgW, imgH, id, before_node ) with id NULL: before is 0 *)
(* for NULL, -1 for a node that is not a Page, k for the k-th Page.        *)
PgAddPage ==
    /\ pg_pc = "run" /\ pg_calls < MaxPageCalls
    /\ \E image \in PgImages, before \in (-1)..Len(pg_pages) :
         IF before = -1
         THEN /\ pg_last' = PgCall("addPage", before, image, TRUE)
              /\ UNCHANGED <<pg_pages, pg_pagesImage, pg_pagesImageFilename, pg_pagesImageBase>>
         ELSE \E page_num \in {IF before = 0 THEN Len(pg_pages) ELSE before - 1} :
              \E parsed \in {parsePageImage(image,
                                 IF before = 0 THEN Append(pg_pagesImageFilename, <<>>)
                                 ELSE ShiftedFrom(pg_pagesImageFilename, page_num),
                                 IF before = 0 THEN Append(pg_pagesImageBase, <<>>)
                                 ELSE ShiftedFrom(pg_pagesImageBase, page_num),
                                 page_num)} :
                /\ pg_pages' = InsertAt(pg_pages, page_num + 1, PgPage(pg_calls + 2, image))
                /\ pg_pagesImage' = IF before = 0 THEN Append(pg_pagesImage, <<>>)
                                    ELSE ShiftedFrom(pg_pagesImage, page_num)
                /\ pg_pagesImageFilename' = parsed.pagesImageFilename
                /\ pg_pagesImageBase' = parsed.pagesImageBase
                /\ pg_last' = PgCall("addPage", before, image, parsed.failed)
    /\ pg_calls' = pg_calls + 1
    /\ UNCHANGED pg_pc
    /\ UNCHANGED <<spVars, bbVars, stVars, roVars, ovVars, crVars, gmVars, fnVars, idVars, prVars>>

(* getPageImage( pagenum ): loadImage reads the file pagesImageFilename    *)
(* names when the entry holds no raster; an empty name makes at(0) throw.  *)
PgGetPageImage ==
    /\ pg_pc = "run" /\ pg_calls < MaxPageCalls
    /\ \E pagenum \in (-1)..Len(pg_pagesImage) :
         IF pagenum < 0 \/ pagenum >= Len(pg_pagesImage)
         THEN /\ pg_last' = PgCall("getPageImage", pagenum, <<>>, TRUE)
              /\ UNCHANGED pg_pagesImage
         ELSE IF pg_pagesImage[pagenum + 1] # <<>>
         THEN /\ pg_last' = PgCall("getPageImage", pagenum, pg_pagesImage[pagenum + 1], FALSE)
              /\ UNCHANGED pg_pagesImage
         ELSE /\ pg_pagesImage' = [pg_pagesImage EXCEPT ![pagenum + 1] =
                                       pg_pagesImageFilename[pagenum + 1]]
              /\ pg_last' = PgCall("getPageImage", pagenum, pg_pagesImageFilename[pagenum + 1],
                                   pg_pagesImageFilename[pagenum + 1] = <<>>)
    /\ pg_calls' = pg_calls + 1
    /\ UNCHANGED <<pg_pc, pg_pages, pg_pagesImageFilename, pg_pagesImageBase>>
    /\ UNCHANGED <<spVars, bbVars, stVars, roVars, ovVars, crVars, gmVars, fnVars, idVars, prVars>>

PgNext == PgAddPage \/ PgGetPageImage

PgStart ==
    /\ SpIdle /\ BbIdle /\ StIdle /\ RoIdle /\ OvIdle /\ CrIdle /\ GmIdle
    /\ FnIdle /\ IdIdle /\ PgInit /\ PrIdle

SpecPages == PgStart /\ [][PgNext]_vars

\* the Page elements of the document
PgPageIds(pages) == {pages[i].page : i \in DOMAIN pages}

(* C29: a call of addPage leaves the members aligned with the pages: one   *)
(* entry per Page, the entry of every Page that existed holding the        *)
(* raster, image filename and image base it held, and the entry of the     *)
(* Page added holding no raster.                                           *)
C29_CacheAlignedAfterAddPage ==
    [][ (pg_calls' = pg_calls + 1 /\ pg_last'.op = "addPage") =>
          /\ Len(pg_pagesImage') = Len(pg_pages')
          /\ Len(pg_pagesImageFilename') = Len(pg_pages')
          /\ Len(pg_pagesImageBase') = Len(pg_pages')
          /\ \A i \in DOMAIN pg_pages : \E j \in DOMAIN pg_pages' :
                /\ pg_pages'[j].page = pg_pages[i].page
                /\ pg_pagesImage'[j] = pg_pagesImage[i]
                /\ pg_pagesImageFilename'[j] = pg_pagesImageFilename[i]
                /\ pg_pagesImageBase'[j] = pg_pagesImageBase[i]
          /\ \A j \in DOMAIN pg_pages' :
                pg_pages'[j].page \notin PgPageIds(pg_pages) => pg_pagesImage'[j] = <<>> ]_vars


-----------------------------------------------------------------------------
(* Specification SpecIds: calls of addTextRegion and addTextLine on a      *)
(* document that starts with one Page.  An element is [name, id, parent]:  *)
(* parent is the position of its parent in id_elems, 0 for PcGts.  An id   *)
(* is a sequence of strings and numbers, <<>> for no id attribute: "t2" is *)
(* <<"t", 2>> and "t2_l1" is <<"t", 2, "_l", 1>>, to_string(n) being the   *)
(* number n.  The place of an element among its siblings is not kept.      *)

MaxAdds == 3

\* the bound of the loops that probe ids
ProbeBound == 100000

IdElem(name, id, parent) == [name |-> name, id |-> id, parent |-> parent]

\* select( "//*[@id='...']" ): some element of the document carries the id
IdExists(elems, id) == \E i \in DOMAIN elems : elems[i].id = id

\* select( "*[@id='...']", node ): a child of node carries the id
IdAmongChildren(elems, node, id) ==
    \E i \in DOMAIN elems : elems[i].parent = node /\ elems[i].id = id

\* select( "*/*[@id='...']", node->parent ): a child of a child of PcGts carries the id
IdAmongGrandchildren(elems, id) ==
    \E i \in DOMAIN elems :
        /\ elems[i].id = id /\ elems[i].parent # 0 /\ elems[elems[i].parent].parent = 0

(* The loop `while( true ) { if( select( ...id(++n)... ).size() == 0 )     *)
(* break; if( n > 100000 ) throw }` from n: the number found, 0 when it    *)
(* throws.  region tells which select is made, prefix is the id without    *)
(* its number.                                                             *)
RECURSIVE ProbeId(_, _, _, _, _)
ProbeId(elems, region, node, prefix, n) ==
    IF ~(IF region THEN IdAmongGrandchildren(elems, Append(prefix, n + 1))
                   ELSE IdAmongChildren(elems, node, Append(prefix, n + 1)))
    THEN n + 1
    ELSE IF n + 1 > ProbeBound THEN 0
    ELSE ProbeId(elems, region, node, prefix, n + 1)

\* addElem( name, id, node, itype, checkid = true ): the elements after it, and its message
addElemChecked(elems, name, id, node) ==
    IF IdExists(elems, id)
    THEN [elems |-> elems, err |-> "PageXML.addElem: id already exists"]
    ELSE [elems |-> Append(elems, IdElem(name, id, node)), err |-> ""]

(* addTextRegion( node, id, before_id ), id and before_id being <<>> for   *)
(* NULL: [elems, err, first, id], first being the value of n before the    *)
(* loop and id the id chosen.                                              *)
addTextRegion(elems, node, id, before_id) ==
    IF elems[node].name # "Page"
    THEN [elems |-> elems, err |-> "PageXML.addTextRegion: node is required to be a Page",
          first |-> 0, id |-> <<>>]
    ELSE With(Cardinality({i \in DOMAIN elems :
                             /\ elems[i].name = "TextRegion" /\ elems[i].parent # 0
                             /\ elems[elems[i].parent].parent = 0}), LAMBDA n :
         With(IF id # <<>> THEN 1 ELSE ProbeId(elems, TRUE, node, <<"t">>, n), LAMBDA found :
         With(IF id # <<>> THEN id ELSE <<"t", found>>, LAMBDA rid :
            IF found = 0
            THEN [elems |-> elems, err |-> "PageXML.addTextRegion: apparently in infinite loop",
                  first |-> n, id |-> <<>>]
            ELSE IF before_id # <<>> /\ ~IdAmongChildren(elems, node, before_id)
            THEN [elems |-> elems, err |-> "PageXML.addTextRegion: unable to find id",
                  first |-> n, id |-> rid]
            ELSE addElemChecked(elems, "TextRegion", rid, node) @@ [first |-> n, id |-> rid])))

\* addTextLine( node, id, before_id )
addTextLine(elems, node, id, before_id) ==
    IF elems[node].name # "TextRegion"
    THEN [elems |-> elems, err |-> "PageXML.addTextLine: node is required to be a TextRegion",
          first |-> 0, id |-> <<>>]
    ELSE IF id = <<>> /\ elems[node].id = <<>>
    THEN [elems |-> elems, err |-> "PageXML.addTextLine: expected element to have an id attribute",
          first |-> 0, id |-> <<>>]
    ELSE With(Cardinality({i \in DOMAIN elems :
                             elems[i].name = "TextLine" /\ elems[i].parent = node}), LAMBDA n :
         With(IF id # <<>> THEN 1
              ELSE ProbeId(elems, FALSE, node, Append(elems[node].id, "_l"), n), LAMBDA found :
         With(IF id # <<>> THEN id ELSE elems[node].id \o <<"_l", found>>, LAMBDA lid :
            IF found = 0
            THEN [elems |-> elems, err |-> "PageXML.addTextLine: apparently in infinite loop",
                  first |-> n, id |-> <<>>]
            ELSE IF before_id # <<>> /\ ~IdAmongChildren(elems, node, before_id)
            THEN [elems |-> elems, err |-> "PageXML.addTextLine: unable to find id",
                  first |-> n, id |-> lid]
            ELSE addElemChecked(elems, "TextLine", lid, node) @@ [first |-> n, id |-> lid])))

\* the ids the caller gives, and a before_id that no element carries
GivenIds == {<<"t", 2>>, <<"t", 1, "_l", 1>>}
AbsentId == <<"none">>

\* the arguments id and before_id of a call
IdArgs == {<<id, <<>>>> : id \in {<<>>} \cup GivenIds} \cup {<<<<>>, AbsentId>>}

\* the document newXml creates: one Page without id
IdInit ==
    /\ id_pc = "run"
    /\ id_elems = <<IdElem("Page", <<>>, 0)>>
    /\ id_calls = 0
    /\ id_last = <<>>

IdAddTextRegion ==
    /\ id_pc = "run" /\ id_calls < MaxAdds
    /\ \E node \in DOMAIN id_elems, args \in IdArgs :
       \E res \in {addTextRegion(id_elems, node, args[1], args[2])} :
         /\ id_elems' = res.elems
         /\ id_last' = [op |-> "addTextRegion", node |-> node, id |-> args[1],
                        before_id |-> args[2], err |-> res.err, first |-> res.first,
                        new |-> res.id]
    /\ id_calls' = id_calls + 1
    /\ UNCHANGED id_pc
    /\ UNCHANGED <<spVars, bbVars, stVars, roVars, ovVars, crVars, gmVars, fnVars, pgVars, prVars>>

IdAddTextLine ==
    /\ id_pc = "run" /\ id_calls < MaxAdds
    /\ \E node \in DOMAIN id_elems, args \in IdArgs :
       \E res \in {addTextLine(id_elems, node, args[1], args[2])} :
         /\ id_elems' = res.elems
         /\ id_last' = [op |-> "addTextLine", node |-> node, id |-> args[1],
                        before_id |-> args[2], err |-> res.err, first |-> res.first,
                        new |-> res.id]
    /\ id_calls' = id_calls + 1
    /\ UNCHANGED id_pc
    /\ UNCHANGED <<spVars, bbVars, stVars, roVars, ovVars, crVars, gmVars, fnVars, pgVars, prVars>>

IdNext == IdAddTextRegion \/ IdAddTextLine

IdStart ==
    /\ SpIdle /\ BbIdle /\ StIdle /\ RoIdle /\ OvIdle /\ CrIdle /\ GmIdle
    /\ FnIdle /\ IdInit /\ PgIdle /\ PrIdle

SpecIds == IdStart /\ [][IdNext]_vars

\* the last call was made without id and without before_id on a node of the right kind
\* that has an id where the id is built from it
IdSynthesized ==
    /\ id_pc = "run" /\ id_calls > 0
    /\ id_last.id = <<>> /\ id_last.before_id = <<>>
    /\ \/ id_last.op = "addTextRegion" /\ id_elems[id_last.node].name = "Page"
       \/ /\ id_last.op = "addTextLine" /\ id_elems[id_last.node].name = "TextRegion"
          /\ id_elems[id_last.node].id # <<>>

\* the id of the last call's kind with the number k
IdNumbered(k) ==
    IF id_last.op = "addTextRegion" THEN <<"t", k>>
    ELSE id_elems[id_last.node].id \o <<"_l", k>>

\* the elements as they were before the last call
IdElemsBefore ==
    IF id_last.err = "" THEN SubSeq(id_elems, 1, Len(id_elems) - 1) ELSE id_elems

(* C21: a call without id succeeds whenever one of the ids it probed is    *)
(* carried by no element of the document, the id of the element it adds is *)
(* carried by no other element, and it fails only when every id up to the  *)
(* bound is carried by some element.                                       *)
C21_SynthesizedIdFree ==
    IdSynthesized =>
        /\ (\E k \in (id_last.first + 1)..id_last.new[Len(id_last.new)] :
                ~IdExists(IdElemsBefore, IdNumbered(k))) => id_last.err = ""
        /\ id_last.err = "" =>
              Cardinality({i \in DOMAIN id_elems : id_elems[i].id = id_last.new}) = 1
        /\ id_last.err # "" =>
              \A k \in 1..ProbeBound : IdExists(IdElemsBefore, IdNumbered(k))

=============================================================================
